---- MODULE Spec2Model ----
(***************************************************************************)
(* Verification model of the puzzle solvers of adventofcode-2022.          *)
(* Every day module is a function from an input text to an answer; each    *)
(* is modelled as a small state machine whose initial state draws the      *)
(* input from a bounded family and whose actions are the steps of the      *)
(* solver's main loop.  One specification per day: Spec12 (day12),         *)
(* Spec11 (day11), Spec14 (day14), Spec15 (day15), Spec3 (day3).           *)
(***************************************************************************)
EXTENDS Integers, Sequences, FiniteSets, TLC

VARIABLES
    \* day12: the input lines, the level, the parsed grid and the a_star state
    input12, level12, grid12, start12, goal12, visited12, queue12, pc12, result12,
    \* day11: the input blocks, the level, the cabal (monkeys and size bound),
    \* the item lists of the same run on unreduced worry values, the rounds
    \* done, the monkey whose turn is next
    input11, level11, monkeys11, bound11, exact11, round11, turn11, pc11, result11,
    \* day14: the rock paths, the level, the grid, the units counted; for
    \* level2 the sandy flags of the last row scanned, the next row and the
    \* rows at which sand left the grid on the left and on the right
    input14, level14, grid14, count14, sandy14, row14, escape14, pc14,
    \* day15: the sensor lines, the level and its second argument (the row
    \* of level1, max of level2), the squares, the intervals still to be
    \* handed to extend, the DisjointIntervals built so far, the candidate
    \* sums not yet visited and the one being visited
    input15, level15, arg15, squares15, todo15, intervals15, cands15, sum15,
    pc15, result15,
    \* day3: the input lines, the level, the next line to read and two
    \* executions of the level on that input, each with its own hash order
    input3, level3, line3, runA3, runB3,
    \* day13: the pairs of packets (level1) or the packets (level2), the
    \* level, the index of the next pair or packet, the sum of level1, the
    \* vector of level2 and its sorted part
    input13, level13, next13, sum13, packets13, sorted13, pc13, result13,
    \* day9: the moves, the level, the knots of the rope, the positions seen,
    \* the move being made and its steps still to make, the offset of the pair
    \* iterator, the pairs it has yielded in this step
    input9, level9, nodes9, seen9, move9, todo9, offset9, pairs9, pc9, result9,
    \* day8: the rows of tree heights, the table of (height, visible), the next
    \* row of set_row_visible, which of its two calls is running
    input8, table8, row8, pass8, pc8, result8,
    \* the entry points: the example run, what parse_args returns, whether the
    \* environment holds SESSION, what the two level functions do on the fixed
    \* input, the answer computed, the log of what the process has done
    dayM, argsM, envM, answersM, dataM, logM, pcM,
    \* DisjointIntervals on its own: the vector after the extend calls made so
    \* far, the points of the intervals they inserted, the vector before the
    \* last interval and that interval
    storedE, coveredE, beforeE, lastE, pcE

vars12 == <<input12, level12, grid12, start12, goal12, visited12, queue12, pc12, result12>>

vars11 == <<input11, level11, monkeys11, bound11, exact11, round11, turn11, pc11, result11>>

vars14 == <<input14, level14, grid14, count14, sandy14, row14, escape14, pc14>>

vars15 == <<input15, level15, arg15, squares15, todo15, intervals15, cands15, sum15,
            pc15, result15>>

vars3 == <<input3, level3, line3, runA3, runB3>>

vars13 == <<input13, level13, next13, sum13, packets13, sorted13, pc13, result13>>

vars9 == <<input9, level9, nodes9, seen9, move9, todo9, offset9, pairs9, pc9, result9>>

vars8 == <<input8, table8, row8, pass8, pc8, result8>>

varsM == <<dayM, argsM, envM, answersM, dataM, logM, pcM>>

varsE == <<storedE, coveredE, beforeE, lastE, pcE>>

vars == <<vars12, vars11, vars14, vars15, vars3, vars13, vars9, vars8, varsM, varsE>>

(***************************************************************************)
(* Helpers shared by the days.                                             *)
(***************************************************************************)
Abs(n) == IF n < 0 THEN -n ELSE n

Min2(a, b) == IF a <= b THEN a ELSE b

Max2(a, b) == IF a >= b THEN a ELSE b

SetMin(S) == CHOOSE m \in S : \A n \in S : m <= n

SetMax(S) == CHOOSE m \in S : \A n \in S : m >= n

\* The lower-case letters in ASCII order; ascii_code(c) - LOWER_A_ASCII is
\* the position of c in this sequence, counted from 0.
LowerCase == <<"a", "b", "c", "d", "e", "f", "g", "h", "i", "j", "k", "l", "m",
               "n", "o", "p", "q", "r", "s", "t", "u", "v", "w", "x", "y", "z">>

LowerSet == {LowerCase[i] : i \in 1..26}

LetterIndex(c) == (CHOOSE i \in 1..26 : LowerCase[i] = c) - 1

(***************************************************************************)
(* day12: hill climbing with a_star.                                       *)
(***************************************************************************)

\* Tree::height: Start is 0, End is 25, a letter its offset from 'a'.
EndHeight == 25

TreeOf(c) ==
    IF c = "S" THEN [kind |-> "Start", h |-> 0]
    ELSE IF c = "E" THEN [kind |-> "End", h |-> EndHeight]
    ELSE [kind |-> "Tree", h |-> LetterIndex(c)]

\* Tree::try_from succeeds on 'a'..'z', 'S' and 'E' only.
IsTreeChar(c) == c \in LowerSet \cup {"S", "E"}

\* char::is_alphabetic on the characters of the model's alphabet: "X" stands
\* for an alphabetic character that is no tree, "#" for a non-alphabetic one.
IsAlphabetic(c) == c \in LowerSet \cup {"S", "E", "X"}

\* take_while(is_alphabetic): the length of the alphabetic prefix of a line.
RECURSIVE AlphaPrefixLen(_, _)
AlphaPrefixLen(line, i) ==
    IF i > Len(line) \/ ~IsAlphabetic(line[i]) THEN i - 1
    ELSE AlphaPrefixLen(line, i + 1)

\* The row parser of parse_grid on one line, called as the y-th call (y from
\* 0): the alphabetic prefix is converted character by character, stopping at
\* the first character that is no tree (map_res then fails).  The closure
\* records the positions of the S and E it converted, also when the row is
\* rejected afterwards.
LineParser(line, y, sp, ep) ==
    LET n     == AlphaPrefixLen(line, 1)
        bad   == {i \in 1..n : ~IsTreeChar(line[i])}
        upto  == IF bad = {} THEN n ELSE SetMin(bad) - 1
        ss    == {i \in 1..upto : line[i] = "S"}
        es    == {i \in 1..upto : line[i] = "E"}
    IN  [ok     |-> bad = {},
         row    |-> [i \in 1..upto |-> TreeOf(line[i])],
         whole  |-> n = Len(line),
         sp     |-> IF ss = {} THEN sp ELSE <<[x |-> SetMax(ss) - 1, y |-> y]>>,
         ep     |-> IF es = {} THEN ep ELSE <<[x |-> SetMax(es) - 1, y |-> y]>>]

\* Grid::parse after the first row: a line ending must follow what the last
\* row parser consumed, and the next row must parse with the same length;
\* otherwise the grid read so far is returned as a success.
RECURSIVE GridParseRest(_, _, _, _, _, _, _)
GridParseRest(lines, i, whole, acc, length, sp, ep) ==
    IF ~whole \/ i > Len(lines)
    THEN [inner |-> acc, length |-> length, height |-> i - 1, sp |-> sp, ep |-> ep]
    ELSE LET r == LineParser(lines[i], i - 1, sp, ep)
         IN  IF r.ok /\ Len(r.row) = length
             THEN GridParseRest(lines, i + 1, r.whole, acc \o r.row, length, r.sp, r.ep)
             ELSE [inner |-> acc, length |-> length, height |-> i - 1,
                   sp |-> r.sp, ep |-> r.ep]

\* parse_grid: None (ok = FALSE) when the first row fails or no S or no E was
\* seen; start_pos and end_pos are the last S and E the row parser converted.
ParseGrid(lines) ==
    IF Len(lines) = 0
    THEN [ok |-> FALSE]
    ELSE LET first == LineParser(lines[1], 0, <<>>, <<>>)
         IN  IF ~first.ok THEN [ok |-> FALSE]
             ELSE LET g == GridParseRest(lines, 2, first.whole, first.row,
                                         Len(first.row), first.sp, first.ep)
                  IN  IF g.sp = <<>> \/ g.ep = <<>> THEN [ok |-> FALSE]
                      ELSE [ok |-> TRUE,
                            grid |-> [inner |-> g.inner, length |-> g.length,
                                      height |-> g.height],
                            start |-> g.sp[1], goal |-> g.ep[1]]

\* Grid::contains and Grid::get.
GridContains(g, pos) ==
    pos.x >= 0 /\ pos.x < g.length /\ pos.y >= 0 /\ pos.y < g.height

GridGet(g, pos) == g.inner[pos.x + g.length * pos.y + 1]

\* GridPos::dist.
Dist(p, q) == Abs(p.x - q.x) + Abs(p.y - q.y)

\* Grid::neighbors: the 4-adjacent positions inside the grid; empty when the
\* position itself is outside.
Neighbors(g, pos) ==
    IF ~GridContains(g, pos) THEN {}
    ELSE {q \in {[x |-> pos.x - 1, y |-> pos.y], [x |-> pos.x + 1, y |-> pos.y],
                 [x |-> pos.x, y |-> pos.y - 1], [x |-> pos.x, y |-> pos.y + 1]} :
             GridContains(g, q)}

\* The cost closures of level1 and level2: a move from `from` to `to` is
\* allowed (cost 1) when the climb is at most one, taken forwards in level1
\* and backwards in level2.
\* Cost with the move taken forwards in both levels.
Cost_Forward(level, from, to) == to.h <= from.h + 1

Cost(level, from, to) ==
    IF level = 1 THEN to.h <= from.h + 1 ELSE from.h <= to.h + 1

\* The is_end closures: the End tree in level1, any tree of height 0 in level2.
IsEnd(level, tree) ==
    IF level = 1 THEN tree.kind = "End" ELSE tree.h = 0

\* The priority closures: depth plus Manhattan distance to E in level1, the
\* depth alone in level2.
\* Priority without the depth: a greedy best-first search.
Priority_Greedy(level, depth, pos, goal) ==
    IF level = 1 THEN Dist(pos, goal) ELSE depth

Priority(level, depth, pos, goal) ==
    IF level = 1 THEN depth + Dist(pos, goal) ELSE depth

\* Ord for SearchEntry, reversed for the max-heap: the entries BinaryHeap::pop
\* may return are those of least priority and, among these, least depth.  The
\* order among entries equal in both is the heap's own; any of them may come.
PopCandidates(queue) ==
    {e \in queue : \A f \in queue :
        e.priority < f.priority \/ (e.priority = f.priority /\ e.depth <= f.depth)}

\* The example grid of the puzzle text (test_input/day12.txt), for which the
\* tests expect 31 (level1) and 29 (level2).
SampleGrid12 ==
    <<<<"S", "a", "b", "q", "p", "o", "n", "m">>,
      <<"a", "b", "c", "r", "y", "x", "x", "l">>,
      <<"a", "c", "c", "s", "z", "E", "x", "k">>,
      <<"a", "c", "c", "t", "u", "v", "w", "j">>,
      <<"a", "b", "d", "e", "f", "g", "h", "i">>>>

\* A second well-formed grid: one corridor that winds through three rows.
SnakeGrid12 ==
    <<<<"S", "a", "b", "c", "d", "e", "f", "g", "h">>,
      <<"q", "p", "o", "n", "m", "l", "k", "j", "i">>,
      <<"r", "s", "t", "u", "v", "w", "x", "y", "E">>>>

BaseGrids12 == {SampleGrid12, SnakeGrid12}

\* The characters a cell of a base grid is changed to: low, middle and high
\* trees, an alphabetic character that is no tree, a non-alphabetic character.
ModChars12 == {"a", "c", "r", "z", "X", "#"}

ChangeCell(lines, r, c, ch) == [lines EXCEPT ![r] = [lines[r] EXCEPT ![c] = ch]]

\* The base grids with one cell changed.
Changed12 ==
    UNION {UNION {{ChangeCell(g, r, c, ch) : c \in 1..Len(g[r]), ch \in ModChars12} :
                     r \in 1..Len(g)} : g \in BaseGrids12}

\* A family with many routes: the three left columns are a plain of 'a' with
\* S somewhere and some cells walled off by 'z'; the five right columns are
\* the only climb to E, entered from the top of the plain.
ClimbRows12 ==
    <<<<"b", "c", "d", "e", "f">>,
      <<"k", "j", "i", "h", "g">>,
      <<"l", "m", "n", "o", "p">>,
      <<"u", "t", "s", "r", "q">>,
      <<"v", "w", "x", "y", "E">>>>

PlainCells12 == (1..4) \X (1..3)

\* How many cells of the plain may be walls.
MaxWalls12 == 2

PlainGrid12(s, walls) ==
    [r \in 1..5 |->
        [c \in 1..3 |-> IF <<r, c>> = s THEN "S"
                        ELSE IF <<r, c>> \in walls THEN "z" ELSE "a"]
        \o ClimbRows12[r]]

PlainGrids12(k) ==
    {PlainGrid12(s, walls) :
        s \in PlainCells12,
        walls \in {w \in SUBSET PlainCells12 : Cardinality(w) <= k}}

\* Inputs with a row cut short, and inputs that end in a line ending.
ShortRow12 ==
    {[g EXCEPT ![r] = SubSeq(g[r], 1, Len(g[r]) - 1)] :
        g \in BaseGrids12, r \in 1..3}

\* Inputs with one more row, of another length or with a character that is
\* no tree, after the rows of a base grid.
ExtraRow12 ==
    {Append(g, junk) : g \in BaseGrids12,
                       junk \in {<<"a", "b">>, <<"#">>, <<"a", "X">>}}

TrailingNewline12 == {Append(g, <<>>) : g \in BaseGrids12}

\* The inputs of the levels: level1, whose search is guided by the distance
\* to E, gets the plains with walls; level2 starts at E and meets the plain
\* last, so its plains have at most one wall.
Inputs12(level) ==
    BaseGrids12 \cup Changed12 \cup ShortRow12 \cup ExtraRow12 \cup TrailingNewline12
        \cup PlainGrids12(IF level = 1 THEN MaxWalls12 ELSE 1)

(***************************************************************************)
(* Every specification runs one day; the variables of the other days rest. *)
(***************************************************************************)
Idle12 ==
    /\ input12 = <<>> /\ level12 = 0 /\ grid12 = <<>> /\ start12 = <<>> /\ goal12 = <<>>
    /\ visited12 = {} /\ queue12 = {} /\ pc12 = "idle" /\ result12 = 0

Idle11 ==
    /\ input11 = <<>> /\ level11 = 0 /\ monkeys11 = <<>> /\ bound11 = <<>>
    /\ exact11 = <<>> /\ round11 = 0 /\ turn11 = 0 /\ pc11 = "idle" /\ result11 = 0

Idle14 ==
    /\ input14 = <<>> /\ level14 = 0 /\ grid14 = <<>> /\ count14 = 0
    /\ sandy14 = <<>> /\ row14 = 0 /\ escape14 = <<>> /\ pc14 = "idle"

Idle15 ==
    /\ input15 = <<>> /\ level15 = 0 /\ arg15 = 0 /\ squares15 = <<>>
    /\ todo15 = <<>> /\ intervals15 = <<>> /\ cands15 = {} /\ sum15 = 0
    /\ pc15 = "idle" /\ result15 = 0

Idle3 ==
    /\ input3 = <<>> /\ level3 = 0 /\ line3 = 0
    /\ runA3 = [pc |-> "idle", sum |-> 0] /\ runB3 = [pc |-> "idle", sum |-> 0]

Idle13 ==
    /\ input13 = <<>> /\ level13 = 0 /\ next13 = 0 /\ sum13 = 0 /\ packets13 = <<>>
    /\ sorted13 = <<>> /\ pc13 = "idle" /\ result13 = 0

Idle9 ==
    /\ input9 = <<>> /\ level9 = 0 /\ nodes9 = <<>> /\ seen9 = {} /\ move9 = 0 /\ todo9 = 0
    /\ offset9 = 0 /\ pairs9 = 0 /\ pc9 = "idle" /\ result9 = 0

Idle8 ==
    /\ input8 = <<>> /\ table8 = <<>> /\ row8 = 0 /\ pass8 = 0 /\ pc8 = "idle" /\ result8 = 0

IdleM ==
    /\ dayM = "" /\ argsM = <<>> /\ envM = <<>> /\ answersM = <<>> /\ dataM = 0 /\ logM = <<>>
    /\ pcM = "idle"

IdleE ==
    /\ storedE = <<>> /\ coveredE = {} /\ beforeE = <<>> /\ lastE = <<>> /\ pcE = "idle"

Others12 == UNCHANGED <<vars11, vars14, vars15, vars3, vars13, vars9, vars8, varsM, varsE>>

Others11 == UNCHANGED <<vars12, vars14, vars15, vars3, vars13, vars9, vars8, varsM, varsE>>

Others14 == UNCHANGED <<vars12, vars11, vars15, vars3, vars13, vars9, vars8, varsM, varsE>>

Others15 == UNCHANGED <<vars12, vars11, vars14, vars3, vars13, vars9, vars8, varsM, varsE>>

Others3 == UNCHANGED <<vars12, vars11, vars14, vars15, vars13, vars9, vars8, varsM, varsE>>

Others13 == UNCHANGED <<vars12, vars11, vars14, vars15, vars3, vars9, vars8, varsM, varsE>>

Others9 == UNCHANGED <<vars12, vars11, vars14, vars15, vars3, vars13, vars8, varsM, varsE>>

Others8 == UNCHANGED <<vars12, vars11, vars14, vars15, vars3, vars13, vars9, varsM, varsE>>

OthersM == UNCHANGED <<vars12, vars11, vars14, vars15, vars3, vars13, vars9, vars8, varsE>>

OthersE == UNCHANGED <<vars12, vars11, vars14, vars15, vars3, vars13, vars9, vars8, varsM>>

(***************************************************************************)
(* day12 as a state machine: parse, then one action per iteration of the   *)
(* while loop of a_star.                                                   *)
(***************************************************************************)
NoPos == [x |-> -1, y |-> -1]

NoGrid == [inner |-> <<>>, length |-> 0, height |-> 0]

Init12 ==
    /\ Idle11 /\ Idle14 /\ Idle15 /\ Idle3 /\ Idle13 /\ Idle9 /\ Idle8 /\ IdleM /\ IdleE
    /\ level12 \in {1, 2}
    /\ input12 \in Inputs12(level12)
    /\ grid12 = NoGrid
    /\ start12 = NoPos
    /\ goal12 = NoPos
    /\ visited12 = {}
    /\ queue12 = {}
    /\ pc12 = "parse"
    /\ result12 = 0

\* level1 / level2 up to the first pop: parse_grid(input).unwrap(), then the
\* head of a_star, which marks the start visited (when it lies in the grid)
\* and pushes it.  level1 searches from S, level2 from E.
Parse12 ==
    /\ pc12 = "parse"
    /\ LET p == ParseGrid(input12)
       IN  IF ~p.ok
           THEN /\ pc12' = "panic"
                /\ UNCHANGED <<grid12, start12, goal12, visited12, queue12>>
           ELSE LET from == IF level12 = 1 THEN p.start ELSE p.goal
                IN  /\ pc12' = "search"
                    /\ grid12' = p.grid
                    /\ start12' = from
                    /\ goal12' = p.goal
                    /\ visited12' = IF GridContains(p.grid, from) THEN {from} ELSE {}
                    /\ queue12' = {[priority |-> Priority(level12, 0, from, p.goal),
                                    depth |-> 0, position |-> from]}
    /\ UNCHANGED <<input12, level12, result12>>
    /\ Others12

\* One iteration of `while let Some(..) = queue.pop()`: the neighbours the
\* cost closure allows and that are not visited are either an end (the search
\* returns depth + 1) or are marked visited and pushed.
Expand12 ==
    /\ pc12 = "search"
    /\ \E e \in PopCandidates(queue12) :
        LET tree == GridGet(grid12, e.position)
            open == IF ~GridContains(grid12, e.position) THEN {}
                    ELSE {q \in Neighbors(grid12, e.position) :
                             /\ Cost(level12, tree, GridGet(grid12, q))
                             /\ q \notin visited12}
        IN  IF \E q \in open : IsEnd(level12, GridGet(grid12, q))
            THEN /\ pc12' = "done"
                 /\ result12' = e.depth + 1
                 /\ UNCHANGED <<visited12, queue12>>
            ELSE /\ visited12' = visited12 \cup open
                 /\ queue12' = (queue12 \ {e}) \cup
                       {[priority |-> Priority(level12, e.depth + 1, q, goal12),
                         depth |-> e.depth + 1, position |-> q] : q \in open}
                 /\ UNCHANGED <<pc12, result12>>
    /\ UNCHANGED <<input12, level12, grid12, start12, goal12>>
    /\ Others12

\* The queue ran empty: a_star returns None and the level's unwrap panics.
Exhausted12 ==
    /\ pc12 = "search"
    /\ queue12 = {}
    /\ pc12' = "panic"
    /\ UNCHANGED <<input12, level12, grid12, start12, goal12, visited12, queue12, result12>>
    /\ Others12

Next12 == Parse12 \/ Expand12 \/ Exhausted12

Spec12 == Init12 /\ [][Next12]_vars

(***************************************************************************)
(* day12: what the levels are to compute, stated on the input text.        *)
(***************************************************************************)
\* The rows of an input, without the empty line a final line ending leaves.
Rows12(lines) ==
    IF Len(lines) > 0 /\ lines[Len(lines)] = <<>>
    THEN SubSeq(lines, 1, Len(lines) - 1) ELSE lines

Cells12(lines) ==
    {rc \in (1..Len(Rows12(lines))) \X (1..Len(Rows12(lines)[1])) : TRUE}

CellsWith12(lines, ch) == {rc \in Cells12(lines) : lines[rc[1]][rc[2]] = ch}

\* A rectangular grid of tree characters with exactly one S and one E.
WellFormed12(lines) ==
    LET rows == Rows12(lines)
    IN  /\ Len(rows) > 0
        /\ Len(rows[1]) > 0
        /\ \A r \in 1..Len(rows) :
              /\ Len(rows[r]) = Len(rows[1])
              /\ \A c \in 1..Len(rows[r]) : IsTreeChar(rows[r][c])
        /\ Cardinality(CellsWith12(lines, "S")) = 1
        /\ Cardinality(CellsWith12(lines, "E")) = 1

HeightAt12(lines, rc) ==
    LET ch == lines[rc[1]][rc[2]]
    IN  IF ch = "S" THEN 0 ELSE IF ch = "E" THEN 25 ELSE LetterIndex(ch)

Heights12(lines) == [rc \in Cells12(lines) |-> HeightAt12(lines, rc)]

\* The cells 4-adjacent to p.
Adjacent12(H, p) ==
    {<<p[1] - 1, p[2]>>, <<p[1] + 1, p[2]>>, <<p[1], p[2] - 1>>, <<p[1], p[2] + 1>>}
        \cap DOMAIN H

\* The climb-legal steps from p under the heights H: to a 4-adjacent cell at
\* most one height unit higher.
ClimbSteps12(H, p) == {q \in Adjacent12(H, p) : H[q] <= H[p] + 1}

\* The least number of climb-legal steps from a cell of `frontier` to the
\* cell `target`, by layers; -1 when there is no path.
RECURSIVE Layers12(_, _, _, _, _)
Layers12(H, frontier, seen, target, d) ==
    IF target \in frontier THEN d
    ELSE IF frontier = {} THEN -1
    ELSE LET next == UNION {ClimbSteps12(H, p) : p \in frontier} \ seen
         IN  Layers12(H, next, seen \cup next, target, d + 1)

ShortestClimb12(lines, from) ==
    Layers12(Heights12(lines), {from}, {from},
             CHOOSE e \in CellsWith12(lines, "E") : TRUE, 0)

\* For every cell the least number of climb-legal steps from it to E among
\* the paths of at most k steps more than those D already accounts for
\* (-1: none).
RECURSIVE ClimbDist12(_, _, _)
ClimbDist12(H, D, k) ==
    LET D2 == [p \in DOMAIN H |->
                  LET via == {D[q] + 1 : q \in {r \in ClimbSteps12(H, p) : D[r] >= 0}}
                      all == IF D[p] >= 0 THEN via \cup {D[p]} ELSE via
                  IN  IF all = {} THEN -1 ELSE SetMin(all)]
    IN  IF k = 0 \/ D2 = D THEN D ELSE ClimbDist12(H, D2, k - 1)

\* The least, over the cells of height 0, of the shortest climb to E.
BestLowestClimb12(lines) ==
    LET H  == Heights12(lines)
        D  == ClimbDist12(H, [p \in DOMAIN H |-> IF H[p] = 25 /\ lines[p[1]][p[2]] = "E"
                                                 THEN 0 ELSE -1],
                          Cardinality(DOMAIN H))
        ds == {D[p] : p \in {q \in DOMAIN H : H[q] = 0}} \ {-1}
    IN  IF ds = {} THEN -1 ELSE SetMin(ds)

\* C1: on a well-formed grid level1 returns the least number of climb-legal
\* steps from S to E (and returns whenever E is reachable); on the example
\* grid this is 31.
C1_Level1Shortest ==
    (pc12 \in {"done", "panic"} /\ level12 = 1 /\ WellFormed12(input12)) =>
        LET d == ShortestClimb12(input12, CHOOSE s \in CellsWith12(input12, "S") : TRUE)
        IN  /\ pc12 = "done" => result12 = d
            /\ pc12 = "panic" => d = -1
            /\ (input12 = SampleGrid12 /\ pc12 = "done") => result12 = 31

\* level1 has returned on a well-formed grid that is not a base grid.
C1_Witness ==
    /\ level12 = 1 /\ pc12 = "done" /\ WellFormed12(input12)
    /\ input12 \in PlainGrids12(MaxWalls12)
    /\ result12 > 27

\* level1 has returned 31 on the example grid.
C1_WitnessSample ==
    level12 = 1 /\ pc12 = "done" /\ input12 = SampleGrid12 /\ result12 = 31

\* C2: on a well-formed grid level2 returns the least, over the cells of
\* height 0, of the shortest climb from that cell to E (and returns whenever
\* some such cell reaches E); on the example grid this is 29.
C2_Level2BestStart ==
    (pc12 \in {"done", "panic"} /\ level12 = 2 /\ WellFormed12(input12)) =>
        LET d == BestLowestClimb12(input12)
        IN  /\ pc12 = "done" => result12 = d
            /\ pc12 = "panic" => d = -1
            /\ (input12 = SampleGrid12 /\ pc12 = "done") => result12 = 29

\* level2 has returned on a well-formed grid where the best start is not S.
C2_Witness ==
    /\ level12 = 2 /\ pc12 = "done" /\ WellFormed12(input12)
    /\ result12 < ShortestClimb12(input12, CHOOSE s \in CellsWith12(input12, "S") : TRUE)

\* C5 (day12): an input that is no well-formed grid makes the level panic.
C5_MalformedPanics ==
    pc12 = "done" => WellFormed12(input12)

(***************************************************************************)
(* day11: monkeys throwing items.                                          *)
(***************************************************************************)
Old == [lit |-> FALSE, v |-> 0]

Lit(n) == [lit |-> TRUE, v |-> n]

\* Var::apply.
VarApply(var, x) == IF var.lit THEN var.v ELSE x

\* Formula::apply.
FormulaApply(f, x) ==
    LET left  == VarApply(f.left, x)
        right == VarApply(f.right, x)
    IN  IF f.op = "Add" THEN left + right ELSE left * right

\* SizeBound::apply; "Exact" is the bound of the reference run that keeps the
\* worry values as they are.
SizeBoundApply(b, x) ==
    IF b.kind = "DivideBy" THEN x \div b.d
    ELSE IF b.kind = "Modulus" THEN x % b.d
    ELSE x

\* gcd and lcm.
RECURSIVE Gcd(_, _)
Gcd(a, b) == IF b = 0 THEN a ELSE Gcd(b, a % b)

Lcm(a, b) == a * (b \div Gcd(a, b))

\* A fold that keeps the last divisor instead of accumulating.
RECURSIVE FoldLcm_Last(_, _, _)
FoldLcm_Last(ms, i, acc) ==
    IF i > Len(ms) THEN acc ELSE FoldLcm_Last(ms, i + 1, ms[i].test_divisible)

\* The fold of From<(Option<u64>, Vec<Monkey>)>: the lcm of all test divisors.
RECURSIVE FoldLcm(_, _, _)
FoldLcm(ms, i, acc) ==
    IF i > Len(ms) THEN acc ELSE FoldLcm(ms, i + 1, Lcm(acc, ms[i].test_divisible))

\* From<(Option<u64>, Vec<Monkey>)> for MonkeyCabal: the size bound.
DivideBy3 == 3

SizeBoundOf(level, ms) ==
    IF level = 1 THEN [kind |-> "DivideBy", d |-> DivideBy3]
    ELSE [kind |-> "Modulus", d |-> FoldLcm(ms, 1, 1)]

\* parse_input: separated_list0 over the monkey blocks with map_opt(i == j);
\* the list ends, as a success, before the first block whose number is not its
\* position.
RECURSIVE ParseMonkeys(_, _)
ParseMonkeys(blocks, i) ==
    IF i > Len(blocks) \/ blocks[i].pos # i - 1 THEN <<>>
    ELSE <<blocks[i].monkey>> \o ParseMonkeys(blocks, i + 1)

\* Monkey::inspect_item and the partition_map of Monkey::inspect: the items
\* in list order, each replaced by size_bound(formula(x)), split into those
\* divisible by test_divisible (left) and the others (right).
RECURSIVE Partition(_, _, _, _, _)
Partition(mk, b, items, k, acc) ==
    IF k > Len(items) THEN acc
    ELSE LET r == SizeBoundApply(b, FormulaApply(mk.formula, items[k]))
         IN  IF r % mk.test_divisible = 0
             THEN Partition(mk, b, items, k + 1, [acc EXCEPT !.passed = Append(@, r)])
             ELSE Partition(mk, b, items, k + 1, [acc EXCEPT !.failed = Append(@, r)])

\* Items are appended in front of the target's list.
ThrowTo_Front(items, thrown) == thrown \o items

\* Vec::append of the thrown items to the target's list.
ThrowTo(items, thrown) == items \o thrown

\* One iteration of the loop of MonkeyCabal::round for monkey i (from 1):
\* inspect takes the items and counts them, then both parts are appended,
\* the passed ones first.
TurnOf(ms, b, i) ==
    LET mk    == ms[i]
        parts == Partition(mk, b, mk.items, 1, [passed |-> <<>>, failed |-> <<>>])
        m0    == [ms EXCEPT ![i].inspected = @ + Len(mk.items), ![i].items = <<>>]
        m1    == [m0 EXCEPT ![mk.throw_to_true + 1].items = ThrowTo(@, parts.passed)]
    IN  [m1 EXCEPT ![mk.throw_to_false + 1].items = ThrowTo(@, parts.failed)]

\* MonkeyCabal::monkey_business: the product of the two largest counters
\* (of all of them when there are fewer than two).
MonkeyBusiness(ms) ==
    LET n == Len(ms)
    IN  IF n = 0 THEN 1
        ELSE IF n = 1 THEN ms[1].inspected
        ELSE LET a == CHOOSE i \in 1..n : \A j \in 1..n : ms[i].inspected >= ms[j].inspected
                 b == CHOOSE i \in (1..n) \ {a} :
                         \A j \in (1..n) \ {a} : ms[i].inspected >= ms[j].inspected
             IN  ms[a].inspected * ms[b].inspected

\* The rounds of level1 and level2.
Rounds1 == 20

Rounds2 == 10000

RoundsOf(level) == IF level = 1 THEN Rounds1 ELSE Rounds2

\* The example of the puzzle text (test_input/day11.txt), for which the tests
\* expect 10605 (level1) and 2713310158 (level2).
Monkey(items, left, op, right, d, t, f) ==
    [items |-> items, formula |-> [left |-> left, right |-> right, op |-> op],
     test_divisible |-> d, throw_to_true |-> t, throw_to_false |-> f, inspected |-> 0]

Numbered(ms) == [i \in 1..Len(ms) |-> [pos |-> i - 1, monkey |-> ms[i]]]

SampleMonkeys11 ==
    Numbered(<<Monkey(<<79, 98>>, Old, "Mul", Lit(19), 23, 2, 3),
               Monkey(<<54, 65, 75, 74>>, Old, "Add", Lit(6), 19, 2, 0),
               Monkey(<<79, 60, 97>>, Old, "Mul", Old, 13, 1, 3),
               Monkey(<<74>>, Old, "Add", Lit(3), 17, 0, 1)>>)

\* Two monkeys with every choice of operation, divisor and targets (a monkey
\* may throw to itself), over a few item lists.
PairFamily11(itemPairs, formulas, divisors) ==
    {Numbered(<<Monkey(ip[1], f0[1], f0[2], f0[3], d0, t0[1], t0[2]),
                Monkey(ip[2], f1[1], f1[2], f1[3], d1, t1[1], t1[2])>>) :
        ip \in itemPairs, f0 \in formulas, f1 \in formulas,
        d0 \in divisors, d1 \in divisors,
        t0 \in {0, 1} \X {0, 1}, t1 \in {0, 1} \X {0, 1}}

\* level1 runs its 20 rounds in full, so its operations are such that the
\* values divided by 3 do not grow.
Level1Family11 ==
    PairFamily11({<<<<5, 9>>, <<7>>>>, <<<<6, 3, 8>>, <<>>>>},
                 {<<Old, "Add", Lit(2)>>, <<Old, "Mul", Lit(3)>>}, {2, 3})

Level2Family11 ==
    PairFamily11({<<<<2, 3>>, <<5>>>>, <<<<7>>, <<>>>>},
                 {<<Old, "Mul", Old>>, <<Old, "Add", Lit(3)>>, <<Old, "Mul", Lit(2)>>},
                 {2, 3, 4})

\* Inputs whose second monkey carries a number out of sequence.
Misnumbered11(F) == {[bs EXCEPT ![2].pos = 2] : bs \in F}

Inputs11(level) ==
    IF level = 1
    THEN {SampleMonkeys11, [SampleMonkeys11 EXCEPT ![1].pos = 1]}
            \cup Level1Family11 \cup Misnumbered11(Level1Family11)
    ELSE {SampleMonkeys11} \cup Level2Family11

\* How many rounds of level2 are followed, and the largest unreduced worry
\* value a monkey may hold for its turn to be followed.
MaxRounds11 == 2

MaxExact11 == 40000

(***************************************************************************)
(* day11 as a state machine: parse, one action per monkey's turn, and the  *)
(* answer after the last round.                                           *)
(***************************************************************************)
Init11 ==
    /\ Idle12 /\ Idle14 /\ Idle15 /\ Idle3 /\ Idle13 /\ Idle9 /\ Idle8 /\ IdleM /\ IdleE
    /\ level11 \in {1, 2}
    /\ input11 \in Inputs11(level11)
    /\ monkeys11 = <<>>
    /\ bound11 = <<>>
    /\ exact11 = <<>>
    /\ round11 = 0
    /\ turn11 = 0
    /\ pc11 = "parse"
    /\ result11 = 0

\* parse_input(..)(input).unwrap().1: the cabal of the monkeys parsed.
Parse11 ==
    /\ pc11 = "parse"
    /\ LET ms == ParseMonkeys(input11, 1)
       IN  /\ monkeys11' = ms
           /\ bound11' = SizeBoundOf(level11, ms)
           /\ exact11' = IF level11 = 2 THEN ms ELSE <<>>
    /\ pc11' = "run"
    /\ UNCHANGED <<input11, level11, round11, turn11, result11>>
    /\ Others11

TargetsInRange(ms, i) ==
    ms[i].throw_to_true < Len(ms) /\ ms[i].throw_to_false < Len(ms)

\* The turn of monkey turn11 in the current round; indexing a target that
\* does not exist panics.  In level2 the same turn is taken on the unreduced
\* values as well.
Turn11 ==
    /\ pc11 = "run"
    /\ round11 < RoundsOf(level11)
    /\ Len(monkeys11) > 0
    /\ level11 = 2 =>
          /\ round11 < MaxRounds11
          /\ \A k \in 1..Len(exact11[turn11 + 1].items) :
                exact11[turn11 + 1].items[k] <= MaxExact11
    /\ IF ~TargetsInRange(monkeys11, turn11 + 1)
       THEN /\ pc11' = "panic"
            /\ UNCHANGED <<monkeys11, exact11, round11, turn11>>
       ELSE /\ monkeys11' = TurnOf(monkeys11, bound11, turn11 + 1)
            /\ exact11' = IF level11 = 2
                          THEN TurnOf(exact11, [kind |-> "Exact", d |-> 1], turn11 + 1)
                          ELSE exact11
            /\ IF turn11 + 1 = Len(monkeys11)
               THEN turn11' = 0 /\ round11' = round11 + 1
               ELSE turn11' = turn11 + 1 /\ round11' = round11
            /\ pc11' = pc11
    /\ UNCHANGED <<input11, level11, bound11, result11>>
    /\ Others11

\* A round of a cabal without monkeys does nothing.
EmptyRound11 ==
    /\ pc11 = "run"
    /\ round11 < RoundsOf(level11)
    /\ Len(monkeys11) = 0
    /\ level11 = 2 => round11 < MaxRounds11
    /\ round11' = round11 + 1
    /\ UNCHANGED <<input11, level11, monkeys11, bound11, exact11, turn11, pc11, result11>>
    /\ Others11

\* After the last round the level returns monkey_business().
Finish11 ==
    /\ pc11 = "run"
    /\ round11 = RoundsOf(level11)
    /\ result11' = MonkeyBusiness(monkeys11)
    /\ pc11' = "done"
    /\ UNCHANGED <<input11, level11, monkeys11, bound11, exact11, round11, turn11>>
    /\ Others11

Next11 == Parse11 \/ Turn11 \/ EmptyRound11 \/ Finish11

Spec11 == Init11 /\ [][Next11]_vars

\* C3: in level2 the run on worry values reduced modulo the lcm of the test
\* divisors and the run on the unreduced values agree, after every turn, on
\* every monkey's inspected counter and on which monkey holds which item (the
\* lists correspond item by item, the values congruent modulo every test
\* divisor).
C3_ModulusKeepsDecisions ==
    (level11 = 2 /\ pc11 = "run") =>
        /\ Len(exact11) = Len(monkeys11)
        /\ \A m \in 1..Len(monkeys11) :
              /\ monkeys11[m].inspected = exact11[m].inspected
              /\ Len(monkeys11[m].items) = Len(exact11[m].items)
              /\ \A k \in 1..Len(monkeys11[m].items) :
                    \A j \in 1..Len(monkeys11) :
                        (exact11[m].items[k] - monkeys11[m].items[k])
                            % monkeys11[j].test_divisible = 0

\* Two rounds of level2 are done, items were inspected, and some unreduced
\* value is beyond the modulus while its reduced counterpart is not.
C3_Witness ==
    /\ level11 = 2 /\ pc11 = "run" /\ round11 = 2
    /\ \E m \in 1..Len(monkeys11) :
          /\ monkeys11[m].inspected > 2
          /\ \E k \in 1..Len(monkeys11[m].items) :
                /\ exact11[m].items[k] > bound11.d
                /\ monkeys11[m].items[k] < bound11.d

\* The step is a turn of a monkey that did not panic.
IsTurn11 == pc11 = "run" /\ pc11' = "run" /\ Len(monkeys11) > 0

\* What the turn of monkey turn11 is to do, stated on the lists.
TurnAsClaimed11 ==
    LET n      == Len(monkeys11)
        i      == turn11 + 1
        mk     == monkeys11[i]
        newv   == [k \in 1..Len(mk.items) |->
                      SizeBoundApply(bound11, FormulaApply(mk.formula, mk.items[k]))]
        IsDiv(v) == v % mk.test_divisible = 0
        NotDiv(v) == v % mk.test_divisible # 0
        passed == SelectSeq(newv, IsDiv)
        failed == SelectSeq(newv, NotDiv)
    IN  /\ \A m \in 1..n :
              /\ monkeys11'[m].items =
                    (IF m = i THEN <<>> ELSE monkeys11[m].items)
                    \o (IF m = mk.throw_to_true + 1 THEN passed ELSE <<>>)
                    \o (IF m = mk.throw_to_false + 1 THEN failed ELSE <<>>)
              /\ monkeys11'[m].inspected =
                    monkeys11[m].inspected + (IF m = i THEN Len(mk.items) ELSE 0)
        /\ turn11' = (turn11 + 1) % n
        /\ round11' = round11 + (IF turn11 + 1 = n THEN 1 ELSE 0)

\* What level1 is to return after its 20 rounds: the product of the two
\* largest counters.
Level1AsClaimed11 ==
    (pc11 = "done" /\ level11 = 1 /\ Len(monkeys11) >= 2) =>
        /\ round11 = 20
        /\ bound11 = [kind |-> "DivideBy", d |-> 3]
        /\ \E a \in 1..Len(monkeys11) : \E b \in (1..Len(monkeys11)) \ {a} :
              /\ result11 = monkeys11[a].inspected * monkeys11[b].inspected
              /\ \A c \in (1..Len(monkeys11)) \ {a, b} :
                    /\ monkeys11[c].inspected <= monkeys11[a].inspected
                    /\ monkeys11[c].inspected <= monkeys11[b].inspected
        /\ input11 = SampleMonkeys11 => result11 = 10605

\* C4: every round gives the monkeys one turn each in index order; a turn
\* inspects the items held at that moment in list order, replaces each by
\* size_bound(formula(value)) and appends the divisible ones to the list of
\* throw_to_true and the others to the list of throw_to_false; level1 runs 20
\* rounds with divide-by-3 and returns the product of the two largest
\* inspected counters (10605 on the example).
C4_RoundSemantics ==
    /\ [][IsTurn11 => TurnAsClaimed11]_vars
    /\ []Level1AsClaimed11

\* level1 has returned 10605 on the example.
C4_Witness ==
    pc11 = "done" /\ level11 = 1 /\ input11 = SampleMonkeys11 /\ result11 = 10605

(***************************************************************************)
(* day14: falling sand.                                                    *)
(***************************************************************************)
\* The source of the sand, x and y.
SourceX == 500

SourceY == 0

Pos(x, y) == [x |-> x, y |-> y]

\* All points of all paths, in order.
RECURSIVE PathPoints(_, _)
PathPoints(paths, i) ==
    IF i > Len(paths) THEN <<>> ELSE paths[i] \o PathPoints(paths, i + 1)

\* GridBound::from_pos / update_pos folded over all points.
GridBoundOf(points) ==
    [left  |-> SetMin({points[k].x : k \in 1..Len(points)}),
     right |-> SetMax({points[k].x : k \in 1..Len(points)}),
     top   |-> SetMax({points[k].y : k \in 1..Len(points)})]

\* Grid::add_path as the set of cells set to Rock: every vertical or
\* horizontal segment between consecutive nodes; a segment that is neither
\* sets nothing, and neither does a path of one node.
SegmentCells(a, b) ==
    IF a.x = b.x
    THEN {Pos(a.x, y) : y \in Min2(a.y, b.y)..Max2(a.y, b.y)}
    ELSE IF a.y = b.y
    THEN {Pos(x, a.y) : x \in Min2(a.x, b.x)..Max2(a.x, b.x)}
    ELSE {}

\* add_path: the cells of all segments of a path.
PathCells(path) ==
    UNION {SegmentCells(path[k], path[k + 1]) : k \in 1..(Len(path) - 1)}

RockCells(paths) == UNION {PathCells(paths[i]) : i \in 1..Len(paths)}

\* Grid::new: the bounding box of all points, from row 0, with the rocks of
\* all paths; the empty grid when there is no point.
GridNew(paths) ==
    LET points == PathPoints(paths, 1)
    IN  IF Len(points) = 0
        THEN [inner |-> <<>>, x_offset |-> 0, length |-> 0, height |-> 0]
        ELSE LET b      == GridBoundOf(points)
                 length == b.right - b.left + 1
                 height == b.top + 1
                 rocks  == RockCells(paths)
             IN  [inner    |-> [k \in 1..(length * height) |->
                                   IF Pos(b.left + ((k - 1) % length), (k - 1) \div length)
                                          \in rocks
                                   THEN "Rock" ELSE "Air"],
                  x_offset |-> b.left, length |-> length, height |-> height]

\* Grid::contains, Grid::get and Grid::set.
Contains14(g, pos) ==
    /\ pos.x >= g.x_offset /\ pos.x < g.x_offset + g.length
    /\ pos.y >= 0 /\ pos.y < g.height

Index14(g, pos) == pos.x - g.x_offset + g.length * pos.y + 1

Get14(g, pos) == g.inner[Index14(g, pos)]

Set14(g, pos, loc) == [g EXCEPT !.inner[Index14(g, pos)] = loc]

\* Below, below-right, below-left.
Below14_RightFirst(pos) ==
    <<Pos(pos.x, pos.y + 1), Pos(pos.x + 1, pos.y + 1), Pos(pos.x - 1, pos.y + 1)>>

\* GridPos::neighbors: below, below-left, below-right, in this order.
Below14(pos) ==
    <<Pos(pos.x, pos.y + 1), Pos(pos.x - 1, pos.y + 1), Pos(pos.x + 1, pos.y + 1)>>

\* Grid::drop_sand: the unit falls to the first of the three cells below that
\* is Air; it is lost (false) when a cell it looks at lies outside the grid,
\* and settles (true) when it is inside the grid with none of them free.
RECURSIVE DropFrom(_, _, _)
DropFrom(g, pos, k) ==
    IF ~Contains14(g, pos) THEN [settled |-> FALSE, grid |-> g]
    ELSE IF k > 3 THEN [settled |-> TRUE, grid |-> Set14(g, pos, "Sand")]
    ELSE LET next == Below14(pos)[k]
         IN  IF ~Contains14(g, next) THEN [settled |-> FALSE, grid |-> g]
             ELSE IF Get14(g, next) = "Air" THEN DropFrom(g, next, 1)
             ELSE DropFrom(g, pos, k + 1)

DropSand(g) == DropFrom(g, Pos(SourceX, SourceY), 1)

\* Grid::get_sandy_count, one row: the cells reached from the sandy cells of
\* the row above (the same column or a neighbouring one), the first and last
\* column also from outside once sand has left the grid on that side; rocks
\* are never sandy.  Row `height` is the extra row of air above the floor.
NewSandy(g, sandy, i, esc) ==
    [j \in 1..g.length |->
        /\ \/ \E k \in Max2(j - 1, 1)..Min2(j + 1, g.length) : sandy[k]
           \/ j = 1 /\ esc.left # 0
           \/ j = g.length /\ esc.right # 0
        /\ ~(i < g.height /\ g.inner[j + g.length * i] = "Rock")]

\* The escape rows after row i: the first row whose predecessor is sandy in
\* the first (last) column.  0 stands for None.
NewEscape(g, sandy, i, esc) ==
    [left  |-> IF esc.left = 0 /\ sandy[1] THEN i ELSE esc.left,
     right |-> IF esc.right = 0 /\ sandy[g.length] THEN i ELSE esc.right]

\* The two triangles outside the grid, from the escape rows.
Triangles(g, esc) ==
    LET lh == IF esc.left = 0 THEN 0 ELSE g.height + 1 - esc.left
        rh == IF esc.right = 0 THEN 0 ELSE g.height + 1 - esc.right
    IN  (lh * (lh + 1) + rh * (rh + 1)) \div 2

CountTrue(f) == Cardinality({j \in DOMAIN f : f[j]})

\* The example of the puzzle text (test_input/day14.txt), for which the tests
\* expect 24 (level1) and 93 (level2).
SamplePaths14 ==
    <<<<Pos(498, 4), Pos(498, 6), Pos(496, 6)>>,
      <<Pos(503, 4), Pos(502, 4), Pos(502, 9), Pos(494, 9)>>>>

\* The window the path nodes of the inputs are taken from: the columns up to
\* HalfWidth14 from the source, the rows 1..MaxY14.
HalfWidth14 == 1

MaxY14 == 3

Points14 ==
    {Pos(x, y) : x \in (SourceX - HalfWidth14)..(SourceX + HalfWidth14), y \in 1..MaxY14}

AxisParallel(a, b) == a.x = b.x \/ a.y = b.y

Segments14 == {q \in Points14 \X Points14 : AxisParallel(q[1], q[2])}

\* Cups around the source column: down, across and up again, up to two
\* columns wider than the window on each side.
Cups14 ==
    {<<<<Pos(l, t), Pos(l, b), Pos(r, b), Pos(r, u)>>>> :
        l \in (SourceX - HalfWidth14 - 2)..SourceX,
        r \in (SourceX + 1)..(SourceX + HalfWidth14 + 2),
        t \in 1..MaxY14, u \in 1..MaxY14, b \in {MaxY14 + 1}}

\* One path of two nodes (any two, also a diagonal pair), one path of three
\* nodes, two paths of two nodes each on a common row or column, a cup, the
\* example.
Inputs14 ==
    {<<<<a, b>>>> : a \in Points14, b \in Points14}
    \cup {<<<<ab[1], ab[2], c>>>> : ab \in Segments14, c \in Points14}
    \cup {<<<<ab[1], ab[2]>>, <<cd[1], cd[2]>>>> : ab \in Segments14, cd \in Segments14}
    \cup Cups14
    \cup {SamplePaths14}

\* The units level1 is followed for when the source is blocked and every
\* unit settles on it.
MaxUnits14 == 40

(***************************************************************************)
(* day14 as a state machine: build the grid; level1 drops unit after unit, *)
(* level2 scans row after row.                                             *)
(***************************************************************************)
Init14 ==
    /\ Idle12 /\ Idle11 /\ Idle15 /\ Idle3 /\ Idle13 /\ Idle9 /\ Idle8 /\ IdleM /\ IdleE
    /\ level14 \in {1, 2}
    /\ input14 \in Inputs14
    /\ grid14 = <<>>
    /\ count14 = 0
    /\ sandy14 = <<>>
    /\ row14 = 0
    /\ escape14 = [left |-> 0, right |-> 0]
    /\ pc14 = "build"

\* Grid::new(paths); for level2 also the head of get_sandy_count(500), where
\* indexing sandy with start_x - x_offset panics when the source column is
\* not a column of the grid.
Build14 ==
    /\ pc14 = "build"
    /\ LET g == GridNew(input14)
       IN  /\ grid14' = g
           /\ IF level14 = 1
              THEN /\ pc14' = "drop"
                   /\ UNCHANGED <<count14, sandy14, row14>>
              ELSE IF SourceX < g.x_offset \/ SourceX - g.x_offset >= g.length
              THEN /\ pc14' = "panic"
                   /\ UNCHANGED <<count14, sandy14, row14>>
              ELSE /\ pc14' = "scan"
                   /\ sandy14' = [j \in 1..g.length |-> j = SourceX - g.x_offset + 1]
                   /\ count14' = 1
                   /\ row14' = 1
    /\ UNCHANGED <<input14, level14, escape14>>
    /\ Others14

\* One iteration of `while grid.drop_sand(..) { count += 1 }` of level1, and
\* its end when a unit is lost.
Drop14 ==
    /\ pc14 = "drop"
    /\ count14 < MaxUnits14
    /\ LET d == DropSand(grid14)
       IN  IF d.settled
           THEN /\ grid14' = d.grid
                /\ count14' = count14 + 1
                /\ pc14' = pc14
           ELSE /\ pc14' = "done"
                /\ UNCHANGED <<grid14, count14>>
    /\ UNCHANGED <<input14, level14, sandy14, row14, escape14>>
    /\ Others14

\* One iteration of the row loop of get_sandy_count.
ScanRow14 ==
    /\ pc14 = "scan"
    /\ row14 <= grid14.height
    /\ LET new == NewSandy(grid14, sandy14, row14, escape14)
       IN  /\ sandy14' = new
           /\ count14' = count14 + CountTrue(new)
    /\ escape14' = NewEscape(grid14, sandy14, row14, escape14)
    /\ row14' = row14 + 1
    /\ UNCHANGED <<input14, level14, grid14, pc14>>
    /\ Others14

\* The end of get_sandy_count: the triangles outside the grid are added.
Total14 ==
    /\ pc14 = "scan"
    /\ row14 > grid14.height
    /\ count14' = count14 + Triangles(grid14, escape14)
    /\ pc14' = "done"
    /\ UNCHANGED <<input14, level14, grid14, sandy14, row14, escape14>>
    /\ Others14

Next14 == Build14 \/ Drop14 \/ ScanRow14 \/ Total14

Spec14 == Init14 /\ [][Next14]_vars

(***************************************************************************)
(* day14: what the levels are to compute, stated on an unbounded cave.     *)
(***************************************************************************)
\* Every path has at least two nodes and only horizontal or vertical steps.
WellFormed14(paths) ==
    \A i \in 1..Len(paths) :
        /\ Len(paths[i]) >= 2
        /\ \A k \in 1..(Len(paths[i]) - 1) : AxisParallel(paths[i][k], paths[i][k + 1])

\* The rock cells: the cells on a segment between two consecutive nodes.
OnSegment(a, b, p) ==
    \/ a.x = b.x /\ p.x = a.x /\ Min2(a.y, b.y) <= p.y /\ p.y <= Max2(a.y, b.y)
    \/ a.y = b.y /\ p.y = a.y /\ Min2(a.x, b.x) <= p.x /\ p.x <= Max2(a.x, b.x)

Rocks14(paths) ==
    LET nodes == UNION {{paths[i][k] : k \in 1..Len(paths[i])} : i \in 1..Len(paths)}
        xs    == {n.x : n \in nodes}
        ys    == {n.y : n \in nodes}
    IN  {p \in {Pos(x, y) : x \in SetMin(xs)..SetMax(xs), y \in SetMin(ys)..SetMax(ys)} :
            \E i \in 1..Len(paths) : \E k \in 1..(Len(paths[i]) - 1) :
                OnSegment(paths[i][k], paths[i][k + 1], p)}

Lost == Pos(-1, -1)

\* Where a unit at pos comes to rest among the occupied cells occ above a
\* floor at row `floor`: it moves down, else down-left, else down-right while
\* that cell is free; it is Lost once it is below row `last`.
RECURSIVE RefFall(_, _, _, _)
RefFall(occ, pos, floor, last) ==
    IF pos.y > last THEN Lost
    ELSE LET free == {q \in {Pos(pos.x, pos.y + 1), Pos(pos.x - 1, pos.y + 1),
                             Pos(pos.x + 1, pos.y + 1)} : q \notin occ /\ q.y < floor}
         IN  IF free = {} THEN pos
             ELSE IF Pos(pos.x, pos.y + 1) \in free
                  THEN RefFall(occ, Pos(pos.x, pos.y + 1), floor, last)
             ELSE IF Pos(pos.x - 1, pos.y + 1) \in free
                  THEN RefFall(occ, Pos(pos.x - 1, pos.y + 1), floor, last)
             ELSE RefFall(occ, Pos(pos.x + 1, pos.y + 1), floor, last)

\* Units are dropped from the source one at a time until one is lost or one
\* rests on the source: the units at rest, and whether the last was lost.
RECURSIVE RefPour(_, _, _, _)
RefPour(occ, n, floor, last) ==
    LET r == RefFall(occ, Pos(SourceX, SourceY), floor, last)
    IN  IF r = Lost THEN [units |-> n, lost |-> TRUE]
        ELSE IF r = Pos(SourceX, SourceY) THEN [units |-> n + 1, lost |-> FALSE]
        ELSE RefPour(occ \cup {r}, n + 1, floor, last)

LowestRock14(paths) == SetMax({p.y : p \in Rocks14(paths)})

\* No floor: a unit below the lowest rock falls for ever.
RefAbyss14(paths) ==
    RefPour(Rocks14(paths), 0, LowestRock14(paths) + 3, LowestRock14(paths))

\* A floor two rows below the lowest rock.
RefFloor14(paths) ==
    RefPour(Rocks14(paths), 0, LowestRock14(paths) + 2, LowestRock14(paths) + 2)

\* C7: level1 returns the number of units that come to rest before the first
\* unit that falls into the abyss (it returns only if a unit does); 24 on the
\* example.
C7_Level1UnitsAtRest ==
    (pc14 = "done" /\ level14 = 1 /\ WellFormed14(input14)) =>
        /\ RefAbyss14(input14).lost
        /\ count14 = RefAbyss14(input14).units
        /\ input14 = SamplePaths14 => count14 = 24

\* level1 has returned on a cup that held several units.
C7_Witness ==
    /\ pc14 = "done" /\ level14 = 1 /\ WellFormed14(input14)
    /\ input14 \in Cups14 /\ count14 >= 6

\* C8: get_sandy_count(500), and so level2, equals the number of units at
\* rest when units are dropped, above a floor two rows below the lowest rock,
\* until one rests on the source; 93 on the example.
C8_SandyCountIsFloorFill ==
    (pc14 \in {"done", "panic"} /\ level14 = 2 /\ WellFormed14(input14)) =>
        /\ pc14 = "done"
        /\ count14 = RefFloor14(input14).units

\* The same for the inputs whose rock paths reach over the source column.
C8_SandyCountInsideBox ==
    (pc14 = "done" /\ level14 = 2 /\ WellFormed14(input14)) =>
        /\ count14 = RefFloor14(input14).units
        /\ input14 = SamplePaths14 => count14 = 93

(***************************************************************************)
(* day15: sensors, beacons and the intervals they cover.                   *)
(* A line "Sensor at x=a, y=b: closest beacon is at x=c, y=d" is the       *)
(* record [sx |-> a, sy |-> b, bx |-> c, by |-> d].  The coordinates of    *)
(* the model are far from the ends of i64, so the saturating operations    *)
(* of the code are the plain ones.                                         *)
(***************************************************************************)
Line15(a, b, c, d) == [sx |-> a, sy |-> b, bx |-> c, by |-> d]

\* parse_line: the square of a sensor and the position of its beacon.
ParseLine15(l) ==
    [square |-> [x |-> l.sx, y |-> l.sy, r |-> Abs(l.sx - l.bx) + Abs(l.sy - l.by)],
     beacon |-> <<l.bx, l.by>>]

\* parse_input followed by unzip (level1) or by dropping the beacons (level2).
Squares15(in) == [i \in 1..Len(in) |-> ParseLine15(in[i]).square]

Beacons15(in) == [i \in 1..Len(in) |-> ParseLine15(in[i]).beacon]

Interval(s, e) == [start |-> s, end |-> e]

\* Square::interval: None is the empty sequence, Some(i) is <<i>>.
SquareInterval(sq, y) ==
    IF sq.r < Abs(sq.y - y) THEN <<>>
    ELSE LET dx == sq.r - Abs(sq.y - y)
         IN <<Interval(sq.x - dx, sq.x + dx)>>

\* Interval::merge that joins overlapping intervals only, not adjacent ones.
Merge_Overlapping(self, other) ==
    IF self.start <= other.end /\ other.start <= self.end
    THEN <<Interval(Min2(self.start, other.start), Max2(self.end, other.end))>>
    ELSE <<>>

\* Interval::merge, with the same encoding of Option.
Merge(self, other) ==
    IF self.start <= other.end + 1 /\ other.start <= self.end + 1
    THEN <<Interval(Min2(self.start, other.start), Max2(self.end, other.end))>>
    ELSE <<>>

\* Interval::len
IntervalLen(i) == i.end + 1 - i.start

\* DisjointIntervals::search: binary_search_by with the comparator of
\* lines 130-136, by bisection of [left, right).  Ok(i) is
\* [ok |-> TRUE, i |-> i], Err(i) is [ok |-> FALSE, i |-> i]; i counts from 0.
RECURSIVE Bisect(_, _, _, _)
Bisect(v, x, left, right) ==
    IF left >= right THEN [ok |-> FALSE, i |-> left]
    ELSE LET mid == left + ((right - left) \div 2)
             i == v[mid + 1]
         IN IF x < i.start THEN Bisect(v, x, left, mid)
            ELSE IF x > i.end THEN Bisect(v, x, mid + 1, right)
            ELSE [ok |-> TRUE, i |-> mid]

Search(v, x) == Bisect(v, x, 0, Len(v))

\* One iteration of the loop of extend.  Vec::splice panics when the range
\* to remove starts after its end.
ExtendOne(v, i) ==
    LET start_pos == Search(v, i.start - 1)
        end_pos == Search(v, i.end + 1)
        first == IF start_pos.ok THEN Merge(i, v[start_pos.i + 1]) ELSE <<>>
        to_insert1 == IF first # <<>> THEN first[1] ELSE i
        second == IF end_pos.ok THEN Merge(to_insert1, v[end_pos.i + 1]) ELSE <<>>
        to_insert == IF second # <<>> THEN second[1] ELSE to_insert1
        to_remove_start == start_pos.i
        to_remove_end == IF end_pos.ok THEN end_pos.i + 1 ELSE end_pos.i
    IN IF to_remove_start > to_remove_end
       THEN [panic |-> TRUE, v |-> v]
       ELSE [panic |-> FALSE,
             v |-> SubSeq(v, 1, to_remove_start) \o <<to_insert>>
                   \o SubSeq(v, to_remove_end + 1, Len(v))]

\* filter_map: the concatenation of the options, in the order of the squares.
RECURSIVE RowIntervals(_, _)
RowIntervals(sqs, y) ==
    IF sqs = <<>> THEN <<>>
    ELSE SquareInterval(Head(sqs), y) \o RowIntervals(Tail(sqs), y)

RECURSIVE SumLen(_)
SumLen(v) == IF v = <<>> THEN 0 ELSE IntervalLen(Head(v)) + SumLen(Tail(v))

\* level1, lines 148-153, with every sensor's beacon counted: what the count
\* would be without dedup.
BeaconsInRow_PerSensor(beacons, v, y) ==
    Cardinality({i \in 1..Len(beacons) :
                    beacons[i][2] = y /\ Search(v, beacons[i][1]).ok})

\* level1, lines 148-153: the distinct beacons of row y inside an interval.
BeaconsInRow(beacons, v, y) ==
    Cardinality({b \in {beacons[i] : i \in 1..Len(beacons)} :
                    b[2] = y /\ Search(v, b[1]).ok})

\* level2: the two sets of candidate sums and their filtered intersection.
CandidatesAbove(sqs) == {sqs[i].x + sqs[i].y + sqs[i].r + 1 : i \in 1..Len(sqs)}

CandidatesBelow(sqs) == {sqs[i].x + sqs[i].y - sqs[i].r - 1 : i \in 1..Len(sqs)}

Candidates(sqs, max) ==
    {c \in CandidatesAbove(sqs) \cap CandidatesBelow(sqs) : 0 <= c /\ c < 2 * max}

\* level2, lines 181-191: the clipped intervals of the squares that meet the
\* line x + y = sum, in the difference coordinate x - y.
RECURSIVE SumIntervals(_, _, _)
SumIntervals(sqs, sum, max) ==
    IF sqs = <<>> THEN <<>>
    ELSE LET s == Head(sqs)
             v == s.x - s.y
             cutoff == 2 * Min2(2 * max - sum, sum)
             rest == SumIntervals(Tail(sqs), sum, max)
         IN IF Abs(sum - (s.x + s.y)) <= s.r
            THEN <<Interval(Max2(v - s.r, -cutoff), Min2(v + s.r, cutoff))>> \o rest
            ELSE rest

\* Division of i64 rounds towards zero.
TruncDiv(a, b) == IF a >= 0 THEN a \div b ELSE -((-a) \div b)

TuningX == 4000000

\* level2, lines 194-196.
TuningFrequency(sum, diff) ==
    TruncDiv(sum + diff - 1, 2) * TuningX + TruncDiv(sum - diff + 1, 2)

(***************************************************************************)
(* day15: the inputs.  The example of the tests, every report of one or    *)
(* two sensors on a small square, three sensors on one row, and four       *)
(* sensors around a single free point with one of them replaced.           *)
(***************************************************************************)
SampleSensors15 ==
    <<Line15(2, 18, -2, 15), Line15(9, 16, 10, 16), Line15(13, 2, 15, 3),
      Line15(12, 14, 10, 16), Line15(10, 20, 10, 16), Line15(14, 17, 10, 16),
      Line15(8, 7, 2, 10), Line15(2, 0, 2, 10), Line15(0, 11, 2, 10),
      Line15(20, 14, 25, 17), Line15(17, 20, 21, 22), Line15(16, 7, 15, 3),
      Line15(14, 3, 15, 3), Line15(20, 1, 15, 3)>>

SampleRow15 == 10

SampleMax15 == 20

MaxCoord15 == 2

MaxX15 == 5

\* Where the closest beacon lies, relative to its sensor.
Offsets15 == {<<0, 0>>, <<1, 0>>, <<0, -1>>, <<-1, 1>>, <<0, 3>>}

SquareLines15 ==
    {Line15(x, y, x + o[1], y + o[2]) :
        x \in 0..MaxCoord15, y \in 0..MaxCoord15, o \in Offsets15}

Small15 ==
    {<<l>> : l \in SquareLines15}
    \cup {<<l1, l2>> : l1 \in SquareLines15, l2 \in SquareLines15}

RowLines15 ==
    {Line15(x, 0, x + o[1], o[2]) : x \in 0..MaxX15, o \in {<<0, 0>>, <<1, 0>>, <<0, 1>>}}

Triples15 == {<<l1, l2, l3>> : l1 \in RowLines15, l2 \in RowLines15, l3 \in RowLines15}

RingSensors15 ==
    <<Line15(4, 1, 4, 2), Line15(0, 0, 3, 1), Line15(4, 4, 3, 3), Line15(0, 3, -1, 1)>>

Rings15 ==
    {RingSensors15}
    \cup {[RingSensors15 EXCEPT ![i] = l] : i \in 1..4, l \in SquareLines15}

\* The four sensors twice, the second time six columns to the right: two
\* free points, each between its own pair of candidate sums.
TwoRings15 ==
    RingSensors15
    \o [i \in 1..4 |-> Line15(RingSensors15[i].sx + 6, RingSensors15[i].sy,
                              RingSensors15[i].bx + 6, RingSensors15[i].by)]

\* level2 is called on the rings with max = 3 and on the two rings with
\* max = 8.
RingCalls15 == (Rings15 \X {3}) \cup {<<TwoRings15, 8>>}

\* The calls of a level: an input and the second argument.
Calls15(level) ==
    IF level = 1
    THEN {<<SampleSensors15, SampleRow15>>}
         \cup (Small15 \X (0..MaxCoord15))
         \cup (Triples15 \X {0, 1})
    ELSE {<<SampleSensors15, SampleMax15>>}
         \cup (Small15 \X {MaxCoord15})
         \cup RingCalls15

(***************************************************************************)
(* day15 as a state machine: parse, one action per iteration of the loop   *)
(* of extend, the count of level1, and for level2 the visit of the         *)
(* candidate sums in the order of the hash set.                            *)
(***************************************************************************)
Init15 ==
    /\ Idle12 /\ Idle11 /\ Idle14 /\ Idle3 /\ Idle13 /\ Idle9 /\ Idle8 /\ IdleM /\ IdleE
    /\ level15 \in {1, 2}
    /\ \E call \in Calls15(level15) : input15 = call[1] /\ arg15 = call[2]
    /\ squares15 = <<>> /\ todo15 = <<>> /\ intervals15 = <<>>
    /\ cands15 = {} /\ sum15 = 0
    /\ pc15 = "parse"
    /\ result15 = 0

Parse15 ==
    /\ pc15 = "parse"
    /\ squares15' = Squares15(input15)
    /\ IF level15 = 1
       THEN /\ todo15' = RowIntervals(squares15', arg15)
            /\ cands15' = {}
            /\ pc15' = "extend"
       ELSE /\ todo15' = <<>>
            /\ cands15' = Candidates(squares15', arg15)
            /\ pc15' = "pick"
    /\ UNCHANGED <<input15, level15, arg15, intervals15, sum15, result15>>
    /\ Others15

\* extend: the next interval of the iterator goes into the collection.
Extend15 ==
    /\ pc15 = "extend"
    /\ todo15 # <<>>
    /\ LET r == ExtendOne(intervals15, Head(todo15))
       IN /\ intervals15' = r.v
          /\ pc15' = IF r.panic THEN "splice_panic" ELSE "extend"
    /\ todo15' = Tail(todo15)
    /\ UNCHANGED <<input15, level15, arg15, squares15, cands15, sum15, result15>>
    /\ Others15

\* level1, lines 148-154.
Count15 ==
    /\ pc15 = "extend"
    /\ todo15 = <<>>
    /\ level15 = 1
    /\ result15' = SumLen(intervals15)
                   - BeaconsInRow(Beacons15(input15), intervals15, arg15)
    /\ pc15' = "done"
    /\ UNCHANGED <<input15, level15, arg15, squares15, todo15, intervals15, cands15, sum15>>
    /\ Others15

\* level2, line 180: the next candidate, in the order of the hash set.
Pick15 ==
    /\ pc15 = "pick"
    /\ \E sum \in cands15 :
        /\ sum15' = sum
        /\ cands15' = cands15 \ {sum}
        /\ todo15' = SumIntervals(squares15, sum, arg15)
    /\ intervals15' = <<>>
    /\ pc15' = "extend"
    /\ UNCHANGED <<input15, level15, arg15, squares15, result15>>
    /\ Others15

\* level2, lines 193-197: a second interval ends the search.
Check15 ==
    /\ pc15 = "extend"
    /\ todo15 = <<>>
    /\ level15 = 2
    /\ IF Len(intervals15) > 1
       THEN /\ result15' = TuningFrequency(sum15, intervals15[2].start)
            /\ pc15' = "done"
       ELSE /\ result15' = result15
            /\ pc15' = "pick"
    /\ UNCHANGED <<input15, level15, arg15, squares15, todo15, intervals15, cands15, sum15>>
    /\ Others15

\* level2, line 199.
NothingFound15 ==
    /\ pc15 = "pick"
    /\ cands15 = {}
    /\ pc15' = "panic"
    /\ UNCHANGED <<input15, level15, arg15, squares15, todo15, intervals15, cands15, sum15,
                   result15>>
    /\ Others15

Next15 == Parse15 \/ Extend15 \/ Count15 \/ Pick15 \/ Check15 \/ NothingFound15

Spec15 == Init15 /\ [][Next15]_vars

(***************************************************************************)
(* day15: what the levels are to compute, stated on the points.            *)
(***************************************************************************)
Radius15(l) == Abs(l.sx - l.bx) + Abs(l.sy - l.by)

\* The point (x, y) is within the range of a sensor of the input.
InRange15(in, x, y) ==
    \E i \in 1..Len(in) : Abs(x - in[i].sx) + Abs(y - in[i].sy) <= Radius15(in[i])

IsBeacon15(in, x, y) == \E i \in 1..Len(in) : in[i].bx = x /\ in[i].by = y

\* No sensor reaches further left or right than these.
Leftmost15(in) == SetMin({in[i].sx - Radius15(in[i]) : i \in 1..Len(in)})

Rightmost15(in) == SetMax({in[i].sx + Radius15(in[i]) : i \in 1..Len(in)})

NoBeaconCount15(in, y) ==
    Cardinality({x \in Leftmost15(in)..Rightmost15(in) :
                    InRange15(in, x, y) /\ ~IsBeacon15(in, x, y)})

OutOfRange15(in, max) ==
    {p \in (0..max) \X (0..max) : ~InRange15(in, p[1], p[2])}

\* C9: when level1 has run on an input and a row y, it has returned the
\* number of x for which (x, y) is within the range of a sensor and is no
\* beacon of the input, a beacon that several sensors report being
\* subtracted once; on the example with y = 10 that is 26.
C9_Level1NoBeaconCount ==
    (level15 = 1 /\ pc15 \notin {"parse", "extend"}) =>
        /\ pc15 = "done"
        /\ result15 = NoBeaconCount15(input15, arg15)
        /\ (input15 = SampleSensors15 /\ arg15 = SampleRow15) => result15 = 26

\* The example has returned 26, three of its sensors reporting the beacon
\* of row 10.
C9_Witness ==
    /\ level15 = 1 /\ pc15 = "done"
    /\ input15 = SampleSensors15 /\ arg15 = SampleRow15
    /\ result15 = 26
    /\ Cardinality({i \in 1..Len(input15) : input15[i].by = arg15}) > 1

\* level1 on a row where the third sensor's interval joins the two stored
\* ones and its beacon is the one the second sensor reports.
C9_WitnessJoin ==
    /\ level15 = 1 /\ pc15 = "done"
    /\ Len(input15) = 3 /\ Len(intervals15) = 1
    /\ Radius15(input15[1]) = 0 /\ Radius15(input15[2]) = 0
    /\ input15[1].sx + 2 = input15[2].sx
    /\ input15[2].bx = input15[3].bx /\ input15[2].by = input15[3].by
    /\ input15[3].by = arg15
    /\ result15 = 1

\* C10: when level2 has run on an input and max such that exactly one point
\* of the square 0..max x 0..max is out of the range of every sensor, it has
\* returned 4000000 * x + y for that point and has not panicked; on the
\* example with max = 20 that is 56000011.
C10_Level2FindsThePoint ==
    (level15 = 2 /\ pc15 \in {"done", "panic", "splice_panic"}) =>
        LET free == OutOfRange15(input15, arg15)
        IN /\ Cardinality(free) = 1 =>
                /\ pc15 = "done"
                /\ \E p \in free : result15 = TuningX * p[1] + p[2]
           /\ (input15 = SampleSensors15 /\ arg15 = SampleMax15) => result15 = 56000011

\* For C10, what does hold: level2 returns 56000011 on the example with
\* max = 20, whichever order the candidate sums are visited in.
C10_Level2OnExample ==
    (level15 = 2 /\ input15 = SampleSensors15 /\ arg15 = SampleMax15
        /\ pc15 \in {"done", "panic", "splice_panic"}) =>
        pc15 = "done" /\ result15 = 56000011

(***************************************************************************)
(* day3: rucksacks.  A line is a sequence of characters; a HashSet is a    *)
(* set, and the first element of its iterator is any of its elements,      *)
(* because the order depends on the keys RandomState draws for every set.  *)
(***************************************************************************)
UpperCase == <<"A", "B", "C", "D", "E", "F", "G", "H", "I", "J", "K", "L", "M",
               "N", "O", "P", "Q", "R", "S", "T", "U", "V", "W", "X", "Y", "Z">>

UpperSet == {UpperCase[i] : i \in 1..26}

UpperIndex(c) == (CHOOSE i \in 1..26 : UpperCase[i] = c) - 1

\* priority panics on a character outside 'a'..='z' and 'A'..='Z'.
PriorityPanics(c) == c \notin LowerSet \cup UpperSet

Priority3(c) ==
    IF c \in LowerSet THEN LetterIndex(c) + 1 ELSE UpperIndex(c) + 27

Chars3(line) == {line[i] : i \in 1..Len(line)}

\* parse_line: the characters common to the two halves of split_at(len / 2).
CommonOfHalves(line) ==
    LET mid == Len(line) \div 2
    IN Chars3(SubSeq(line, 1, mid)) \cap Chars3(SubSeq(line, mid + 1, Len(line)))

\* parse_line_group: reduce with intersection over the lines of a chunk.
RECURSIVE CommonOfGroup(_)
CommonOfGroup(lines) ==
    IF Len(lines) = 1 THEN Chars3(lines[1])
    ELSE CommonOfGroup(SubSeq(lines, 1, Len(lines) - 1)) \cap Chars3(lines[Len(lines)])

\* What next() may yield: an element of the set, or None for the empty set.
None3 == "None"

FirstOf(set) == IF set = {} THEN {None3} ELSE set

\* One term of the sum for an execution: unwrap panics on None, priority on
\* a character that is no letter; a panic ends the execution.
AddPriority(run, c) ==
    IF run.pc # "run" THEN run
    ELSE IF c = None3 \/ PriorityPanics(c) THEN [pc |-> "panic", sum |-> run.sum]
    ELSE [pc |-> "run", sum |-> run.sum + Priority3(c)]

\* chunks(3): the lines of the chunk that starts at line i.
ChunkSize == 3

Chunk(in, i) == SubSeq(in, i, Min2(i + ChunkSize - 1, Len(in)))

MaxLen3 == 4

MaxGroupLen3 == 2

Alphabet3 == {"a", "Z", "-"}

RECURSIVE LinesUpTo(_)
LinesUpTo(n) ==
    IF n = 0 THEN {<<>>}
    ELSE LinesUpTo(n - 1)
         \cup {Append(l, c) : l \in {m \in LinesUpTo(n - 1) : Len(m) = n - 1}, c \in Alphabet3}

Lines3 == LinesUpTo(MaxLen3)

GroupLines3 == LinesUpTo(MaxGroupLen3)

\* level1 reads no, one or two lines; level2 one full chunk of lines, or a
\* full chunk of one line thrice and a chunk of a single line.
Inputs3(level) ==
    IF level = 1
    THEN {<<>>} \cup {<<l>> : l \in Lines3} \cup {<<l, m>> : l \in Lines3, m \in Lines3}
    ELSE {<<l, m, n>> : l \in GroupLines3, m \in GroupLines3, n \in GroupLines3}
         \cup {<<l, l, l, m>> : l \in GroupLines3, m \in GroupLines3}

(***************************************************************************)
(* day3 as a state machine: two executions of a level on the same input,   *)
(* line by line, each drawing its own first elements.                      *)
(***************************************************************************)
Init3 ==
    /\ Idle12 /\ Idle11 /\ Idle14 /\ Idle15 /\ Idle13 /\ Idle9 /\ Idle8 /\ IdleM /\ IdleE
    /\ level3 \in {1, 2}
    /\ input3 \in Inputs3(level3)
    /\ line3 = 1
    /\ runA3 = [pc |-> "run", sum |-> 0]
    /\ runB3 = [pc |-> "run", sum |-> 0]

\* level1: map(parse_line) on the next line.
Line3 ==
    /\ level3 = 1
    /\ line3 <= Len(input3)
    /\ "run" \in {runA3.pc, runB3.pc}
    /\ \E ca \in FirstOf(CommonOfHalves(input3[line3])) :
       \E cb \in FirstOf(CommonOfHalves(input3[line3])) :
            /\ runA3' = AddPriority(runA3, ca)
            /\ runB3' = AddPriority(runB3, cb)
    /\ line3' = line3 + 1
    /\ UNCHANGED <<input3, level3>>
    /\ Others3

\* level2: map(parse_line_group) on the next chunk.
Group3 ==
    /\ level3 = 2
    /\ line3 <= Len(input3)
    /\ "run" \in {runA3.pc, runB3.pc}
    /\ \E ca \in FirstOf(CommonOfGroup(Chunk(input3, line3))) :
       \E cb \in FirstOf(CommonOfGroup(Chunk(input3, line3))) :
            /\ runA3' = AddPriority(runA3, ca)
            /\ runB3' = AddPriority(runB3, cb)
    /\ line3' = line3 + ChunkSize
    /\ UNCHANGED <<input3, level3>>
    /\ Others3

\* sum(): the executions that read every line return.
Return3 ==
    /\ level3 \in {1, 2}
    /\ line3 > Len(input3)
    /\ "run" \in {runA3.pc, runB3.pc}
    /\ runA3' = IF runA3.pc = "run" THEN [runA3 EXCEPT !.pc = "done"] ELSE runA3
    /\ runB3' = IF runB3.pc = "run" THEN [runB3 EXCEPT !.pc = "done"] ELSE runB3
    /\ UNCHANGED <<input3, level3, line3>>
    /\ Others3

Next3 == Line3 \/ Group3 \/ Return3

Spec3 == Init3 /\ [][Next3]_vars

\* C6: two executions of a level on the same input end alike, both in a
\* panic or both with the same answer, whichever elements the hash sets
\* yield first.
C6_SameAnswer ==
    (runA3.pc \in {"done", "panic"} /\ runB3.pc \in {"done", "panic"}) =>
        /\ runA3.pc = runB3.pc
        /\ runA3.pc = "done" => runA3.sum = runB3.sum

(***************************************************************************)
(* day13: packets.  Data(n) and List(xs) are records of one shape, so that *)
(* any two packets can be compared for equality.                           *)
(***************************************************************************)
Data(n) == [kind |-> "Data", n |-> n, xs |-> <<>>]

List(xs) == [kind |-> "List", n |-> 0, xs |-> xs]

DividerTwo == 2

DividerSix == 6

\* PacketData::divider
Divider(i) == List(<<List(<<Data(i)>>)>>)

\* Ordering::then and Ordering::reverse
Then(a, b) == IF a = "Equal" THEN b ELSE a

Reverse(a) == IF a = "Less" THEN "Greater" ELSE IF a = "Greater" THEN "Less" ELSE "Equal"

\* i32::cmp
IntCmp(x, y) == IF x < y THEN "Less" ELSE IF x > y THEN "Greater" ELSE "Equal"

\* Lines 36-40 with the tail of the list ignored.
DataListTail_Ignored(ys) == "Equal"

\* Lines 36-40: what decides when the integer equals the head of the list.
DataListTail(ys) == IF Len(ys) > 1 THEN "Less" ELSE "Equal"

\* Lines 44-48, the same with the list on the left.
ListDataTail(xs) == IF Len(xs) > 1 THEN "Greater" ELSE "Equal"

\* Ord for PacketData: cmp, and the zip_longest loop of lines 52-69 from
\* position i on.
RECURSIVE Cmp(_, _)
RECURSIVE CmpFrom(_, _, _)
Cmp(self, other) ==
    IF self.kind = "Data" /\ other.kind = "Data" THEN IntCmp(self.n, other.n)
    ELSE IF self.kind = "Data"
    THEN IF other.xs = <<>> THEN "Greater"
         ELSE Then(Cmp(Data(self.n), other.xs[1]), DataListTail(other.xs))
    ELSE IF other.kind = "Data"
    THEN IF self.xs = <<>> THEN "Less"
         ELSE Then(Reverse(Cmp(Data(other.n), self.xs[1])), ListDataTail(self.xs))
    ELSE CmpFrom(self.xs, other.xs, 1)

CmpFrom(xs, ys, i) ==
    IF i > Len(xs) /\ i > Len(ys) THEN "Equal"
    ELSE IF i > Len(ys) THEN "Greater"
    ELSE IF i > Len(xs) THEN "Less"
    ELSE LET result == Cmp(xs[i], ys[i])
         IN IF result = "Equal" THEN CmpFrom(xs, ys, i + 1) ELSE result

\* level1, line 110: the pairs that count.
Counts(c) == c # "Greater"

\* slice::sort is stable: a packet goes behind the packets of the sorted
\* part that are not greater than it.
InsertSorted(sorted, p) ==
    LET behind == {i \in 1..Len(sorted) : Cmp(sorted[i], p) # "Greater"}
        k == IF behind = {} THEN 0 ELSE SetMax(behind)
    IN SubSeq(sorted, 1, k) \o <<p>> \o SubSeq(sorted, k + 1, Len(sorted))

\* iter().position(|p| p == &divider).unwrap() + 1, with the derived equality.
PositionOf(v, p) == SetMin({i \in 1..Len(v) : v[i] = p})

(***************************************************************************)
(* day13: the inputs.  The example of the tests; for level1 one pair of    *)
(* any two packets of nesting depth two, and a pair of flat packets with   *)
(* the same pair swapped;                                                  *)
(* for level2 up to three packets close to the dividers.                   *)
(***************************************************************************)
Ints(ns) == List([i \in 1..Len(ns) |-> Data(ns[i])])

SamplePairs13 ==
    <<<<Ints(<<1, 1, 3, 1, 1>>), Ints(<<1, 1, 5, 1, 1>>)>>,
      <<List(<<Ints(<<1>>), Ints(<<2, 3, 4>>)>>), List(<<Ints(<<1>>), Data(4)>>)>>,
      <<Ints(<<9>>), List(<<Ints(<<8, 7, 6>>)>>)>>,
      <<List(<<Ints(<<4, 4>>), Data(4), Data(4)>>),
        List(<<Ints(<<4, 4>>), Data(4), Data(4), Data(4)>>)>>,
      <<Ints(<<7, 7, 7, 7>>), Ints(<<7, 7, 7>>)>>,
      <<Ints(<<>>), Ints(<<3>>)>>,
      <<List(<<List(<<Ints(<<>>)>>)>>), List(<<Ints(<<>>)>>)>>,
      <<List(<<Data(1),
               List(<<Data(2), List(<<Data(3), List(<<Data(4), Ints(<<5, 6, 7>>)>>)>>)>>),
               Data(8), Data(9)>>),
        List(<<Data(1),
               List(<<Data(2), List(<<Data(3), List(<<Data(4), Ints(<<5, 6, 0>>)>>)>>)>>),
               Data(8), Data(9)>>)>>>>

\* parse_all_lines reads the same text packet by packet.
RECURSIVE Flatten13(_)
Flatten13(pairs) ==
    IF pairs = <<>> THEN <<>> ELSE Head(pairs) \o Flatten13(Tail(pairs))

MaxInt13 == 1

Numbers13 == {Data(n) : n \in 0..MaxInt13}

\* Lists of at most two elements of a set.
ShortLists(elems) ==
    {List(<<>>)} \cup {List(<<a>>) : a \in elems} \cup {List(<<a, b>>) : a \in elems, b \in elems}

Flat13 == ShortLists(Numbers13)

Packets13 == ShortLists(Numbers13 \cup Flat13)

NearDividers13 ==
    LET ns == {DividerTwo - 1, DividerTwo, DividerSix, DividerSix + 1}
    IN {List(<<>>), List(<<List(<<>>)>>)}
       \cup {Ints(<<n>>) : n \in ns}
       \cup {Divider(n) : n \in ns}
       \cup {List(<<Divider(n)>>) : n \in ns}
       \cup {List(<<Ints(<<n>>), Data(n)>>) : n \in ns}

Inputs13(level) ==
    IF level = 1
    THEN {SamplePairs13}
         \cup {<<<<l, r>>>> : l \in Packets13, r \in Packets13}
         \cup {<<<<l, r>>, <<r, l>>>> : l \in Flat13, r \in Flat13}
    ELSE {<<>>, Flatten13(SamplePairs13)}
         \cup {<<p>> : p \in NearDividers13}
         \cup {<<p, q>> : p \in NearDividers13, q \in NearDividers13}
         \cup {<<p, q, r>> : p \in NearDividers13, q \in NearDividers13, r \in NearDividers13}

(***************************************************************************)
(* day13 as a state machine: level1 compares pair after pair; level2       *)
(* pushes the dividers, sorts packet after packet and takes the positions. *)
(***************************************************************************)
Init13 ==
    /\ Idle12 /\ Idle11 /\ Idle14 /\ Idle15 /\ Idle3 /\ Idle9 /\ Idle8 /\ IdleM /\ IdleE
    /\ level13 \in {1, 2}
    /\ input13 \in Inputs13(level13)
    /\ next13 = 1
    /\ sum13 = 0
    /\ packets13 = <<>> /\ sorted13 = <<>>
    /\ pc13 = IF level13 = 1 THEN "pairs" ELSE "push"
    /\ result13 = 0

\* level1, lines 108-110: the next pair, with its index.
Pair13 ==
    /\ pc13 = "pairs"
    /\ next13 <= Len(input13)
    /\ sum13' = IF Counts(Cmp(input13[next13][1], input13[next13][2]))
                THEN sum13 + next13 ELSE sum13
    /\ next13' = next13 + 1
    /\ UNCHANGED <<input13, level13, packets13, sorted13, pc13, result13>>
    /\ Others13

\* level1, line 111.
Sum13 ==
    /\ pc13 = "pairs"
    /\ next13 > Len(input13)
    /\ result13' = sum13
    /\ pc13' = "done"
    /\ UNCHANGED <<input13, level13, next13, sum13, packets13, sorted13>>
    /\ Others13

\* level2, lines 117-119.
Push13 ==
    /\ pc13 = "push"
    /\ packets13' = input13 \o <<Divider(DividerTwo), Divider(DividerSix)>>
    /\ pc13' = "sort"
    /\ UNCHANGED <<input13, level13, next13, sum13, sorted13, result13>>
    /\ Others13

\* level2, line 120: the next packet takes its place.
Sort13 ==
    /\ pc13 = "sort"
    /\ next13 <= Len(packets13)
    /\ sorted13' = InsertSorted(sorted13, packets13[next13])
    /\ next13' = next13 + 1
    /\ UNCHANGED <<input13, level13, sum13, packets13, pc13, result13>>
    /\ Others13

\* level2, lines 121-123.
Positions13 ==
    /\ pc13 = "sort"
    /\ next13 > Len(packets13)
    /\ result13' = PositionOf(sorted13, Divider(DividerTwo))
                   * PositionOf(sorted13, Divider(DividerSix))
    /\ pc13' = "done"
    /\ UNCHANGED <<input13, level13, next13, sum13, packets13, sorted13>>
    /\ Others13

Next13 == Pair13 \/ Sum13 \/ Push13 \/ Sort13 \/ Positions13

Spec13 == Init13 /\ [][Next13]_vars

(***************************************************************************)
(* day13: the packet order as the puzzle states it, and the answers.       *)
(***************************************************************************)
AsList(p) == IF p.kind = "Data" THEN <<p>> ELSE p.xs

RECURSIVE PacketOrder(_, _)
PacketOrder(a, b) ==
    IF a.kind = "Data" /\ b.kind = "Data" THEN IntCmp(a.n, b.n)
    ELSE LET xs == AsList(a)
             ys == AsList(b)
             differ == {i \in 1..Min2(Len(xs), Len(ys)) : PacketOrder(xs[i], ys[i]) # "Equal"}
         IN IF differ = {} THEN IntCmp(Len(xs), Len(ys))
            ELSE PacketOrder(xs[SetMin(differ)], ys[SetMin(differ)])

RECURSIVE RightOrderSumTo(_, _)
RightOrderSumTo(pairs, i) ==
    IF i = 0 THEN 0
    ELSE RightOrderSumTo(pairs, i - 1)
         + (IF PacketOrder(pairs[i][1], pairs[i][2]) # "Greater" THEN i ELSE 0)

RightOrderSum(pairs) == RightOrderSumTo(pairs, Len(pairs))

SmallerThan(packets, p) ==
    Cardinality({i \in 1..Len(packets) : PacketOrder(packets[i], p) = "Less"})

\* The integers that are elements of a packet.
NumbersIn(p) == {p.xs[i] : i \in {j \in 1..Len(p.xs) : p.xs[j].kind = "Data"}}

\* C11: for the pair level1 has just compared, cmp is the packet order
\* (integers numerically, lists element by element with the proper prefix
\* smaller), and an integer of the pair compares with the other packet, on
\* either side, as the list of that integer alone does; level1 returns the
\* sum of the indices, from 1, of the pairs whose left packet is not
\* greater than the right one, 13 on the example.
C11_PacketOrderAndIndexSum ==
    level13 = 1 =>
        /\ \A i \in {next13 - 1} \cap (1..Len(input13)) :
            LET l == input13[i][1]
                r == input13[i][2]
            IN /\ Cmp(l, r) = PacketOrder(l, r)
               /\ \A d \in NumbersIn(l) \cup NumbersIn(r) : \A p \in {l, r} :
                    /\ Cmp(d, p) = Cmp(List(<<d>>), p)
                    /\ Cmp(p, d) = Cmp(p, List(<<d>>))
        /\ pc13 = "done" =>
            /\ result13 = RightOrderSum(input13)
            /\ input13 = SamplePairs13 => result13 = 13

\* level1 has returned 13 on the example.
C11_Witness ==
    /\ level13 = 1 /\ pc13 = "done"
    /\ input13 = SamplePairs13
    /\ result13 = 13

\* level1 has compared an integer with a longer list whose head equals it,
\* and the second of two pairs is the one that counts.
C11_WitnessMixed ==
    /\ level13 = 1 /\ pc13 = "done" /\ Len(input13) = 1
    /\ LET l == input13[1][1]
           r == input13[1][2]
       IN /\ Len(l.xs) = 1 /\ l.xs[1].kind = "Data"
          /\ Len(r.xs) = 1 /\ r.xs[1].kind = "List" /\ Len(r.xs[1].xs) = 2
          /\ r.xs[1].xs[1] = l.xs[1]
    /\ result13 = 1

\* C12: level2 returns p2 * p6, with p2 one more than the number of input
\* packets smaller than [[2]] and p6 two more than the number of input
\* packets smaller than [[6]]; 140 on the example.
C12_DividerPositions ==
    (level13 = 2 /\ pc13 = "done") =>
        /\ result13 = (1 + SmallerThan(input13, Divider(DividerTwo)))
                      * (2 + SmallerThan(input13, Divider(DividerSix)))
        /\ input13 = Flatten13(SamplePairs13) => result13 = 140

\* An input packet is a tie of a divider when it is neither smaller nor
\* greater than the divider and is not the divider itself, as [2] and [[2]].
TiesDivider13(p) ==
    \E d \in {Divider(DividerTwo), Divider(DividerSix)} :
        p # d /\ PacketOrder(p, d) = "Equal"

\* For C12, what does hold: the claimed product on the inputs without a tie
\* of a divider, and 140 on the example.
C12_DividerPositionsWithoutTies ==
    (level13 = 2 /\ pc13 = "done"
        /\ \A i \in 1..Len(input13) : ~TiesDivider13(input13[i])) =>
        /\ result13 = (1 + SmallerThan(input13, Divider(DividerTwo)))
                      * (2 + SmallerThan(input13, Divider(DividerSix)))
        /\ input13 = Flatten13(SamplePairs13) => result13 = 140

(***************************************************************************)
(* day9: the rope.  A move is [direction, length]; Pos(x, y) is <<x, y>>.  *)
(***************************************************************************)
Move(d, n) == [direction |-> d, length |-> n]

Signum(n) == IF n > 0 THEN 1 ELSE IF n < 0 THEN -1 ELSE 0

\* Pos::move_to_head that moves only when both axes are more than one apart.
MoveToHead_BothAxes(self, head_pos) ==
    IF Abs(head_pos[1] - self[1]) > 1 /\ Abs(head_pos[2] - self[2]) > 1
    THEN <<self[1] + Signum(head_pos[1] - self[1]), self[2] + Signum(head_pos[2] - self[2])>>
    ELSE self

\* Pos::move_to_head
MoveToHead(self, head_pos) ==
    IF Abs(head_pos[1] - self[1]) > 1 \/ Abs(head_pos[2] - self[2]) > 1
    THEN <<self[1] + Signum(head_pos[1] - self[1]), self[2] + Signum(head_pos[2] - self[2])>>
    ELSE self

\* Pos::step
PosStep(self, direction) ==
    CASE direction = "L" -> <<self[1] - 1, self[2]>>
      [] direction = "R" -> <<self[1] + 1, self[2]>>
      [] direction = "U" -> <<self[1], self[2] + 1>>
      [] direction = "D" -> <<self[1], self[2] - 1>>

\* The const parameter N of move_rope.
KnotsLevel1 == 2

KnotsLevel2 == 10

Knots(level) == IF level = 1 THEN KnotsLevel1 ELSE KnotsLevel2

\* Rope::new and Rope::tail
RopeNew(n) == [i \in 1..n |-> <<0, 0>>]

RopeTail(nodes) == nodes[Len(nodes)]

\* 0..length is empty for a length that is not positive.
StepsOf(in, i) == IF i <= Len(in) THEN Max2(in[i].length, 0) ELSE 0

SampleMoves9 ==
    <<Move("R", 4), Move("U", 4), Move("L", 3), Move("D", 1),
      Move("R", 4), Move("D", 1), Move("L", 5), Move("R", 2)>>

LargeMoves9 ==
    <<Move("R", 5), Move("U", 8), Move("L", 8), Move("D", 3),
      Move("R", 17), Move("D", 10), Move("L", 25), Move("U", 20)>>

MaxLen9 == 3

LongLen9 == 10

Directions9 == {"L", "R", "U", "D"}

ShortMoves9 == {Move(d, n) : d \in Directions9, n \in 0..MaxLen9}

LongMoves9 == {Move(d, n) : d \in Directions9, n \in {LongLen9 - 1, LongLen9}}

\* level1 gets up to three short moves; level2, whose tail only moves after
\* nine steps, two long ones.
Inputs9(level) ==
    {<<>>, SampleMoves9, LargeMoves9}
    \cup IF level = 1
         THEN {<<a>> : a \in ShortMoves9}
              \cup {<<a, b>> : a \in ShortMoves9, b \in ShortMoves9}
              \cup {<<a, b, c>> : a \in ShortMoves9, b \in ShortMoves9, c \in ShortMoves9}
         ELSE {<<a, b>> : a \in LongMoves9, b \in LongMoves9}

(***************************************************************************)
(* day9 as a state machine: the head's step, one action per call of        *)
(* MutPairs::next, the passage to the next move, and the return.           *)
(***************************************************************************)
Init9 ==
    /\ Idle12 /\ Idle11 /\ Idle14 /\ Idle15 /\ Idle3 /\ Idle13 /\ Idle8 /\ IdleM /\ IdleE
    /\ level9 \in {1, 2}
    /\ input9 \in Inputs9(level9)
    /\ nodes9 = RopeNew(Knots(level9))
    /\ seen9 = {RopeTail(nodes9)}
    /\ move9 = 1
    /\ todo9 = StepsOf(input9, 1)
    /\ offset9 = 0 /\ pairs9 = 0
    /\ pc9 = "moves"
    /\ result9 = 0

\* Rope::step, lines 88-92: the head steps and the iterator is made.
HeadStep9 ==
    /\ pc9 = "moves"
    /\ move9 <= Len(input9)
    /\ todo9 > 0
    /\ nodes9' = [nodes9 EXCEPT ![1] = PosStep(nodes9[1], input9[move9].direction)]
    /\ todo9' = todo9 - 1
    /\ offset9' = 0
    /\ pairs9' = 0
    /\ pc9' = "pairs"
    /\ UNCHANGED <<input9, level9, seen9, move9, result9>>
    /\ Others9

\* MutPairs::next and the body of the while let: split_at_mut panics when
\* the offset is beyond the slice, last().unwrap() when the left part is
\* empty; an empty right part yields None, which ends Rope::step, and
\* move_rope inserts the tail.
PairNext9 ==
    /\ pc9 = "pairs"
    /\ offset9' = offset9 + 1
    /\ IF offset9' > Len(nodes9) \/ offset9' < 1
       THEN /\ pc9' = "panic"
            /\ UNCHANGED <<nodes9, seen9, pairs9>>
       ELSE IF offset9' = Len(nodes9)
       THEN /\ pc9' = "moves"
            /\ seen9' = seen9 \cup {RopeTail(nodes9)}
            /\ UNCHANGED <<nodes9, pairs9>>
       ELSE /\ nodes9' = [nodes9 EXCEPT ![offset9' + 1] =
                              MoveToHead(nodes9[offset9' + 1], nodes9[offset9'])]
            /\ pairs9' = pairs9 + 1
            /\ UNCHANGED <<seen9, pc9>>
    /\ UNCHANGED <<input9, level9, move9, todo9, result9>>
    /\ Others9

\* move_rope, line 107: the next move of the iterator.
NextMove9 ==
    /\ pc9 = "moves"
    /\ move9 <= Len(input9)
    /\ todo9 = 0
    /\ move9' = move9 + 1
    /\ todo9' = StepsOf(input9, move9 + 1)
    /\ UNCHANGED <<input9, level9, nodes9, seen9, offset9, pairs9, pc9, result9>>
    /\ Others9

\* move_rope, line 113.
Return9 ==
    /\ pc9 = "moves"
    /\ move9 > Len(input9)
    /\ result9' = Cardinality(seen9)
    /\ pc9' = "done"
    /\ UNCHANGED <<input9, level9, nodes9, seen9, move9, todo9, offset9, pairs9>>
    /\ Others9

Next9 == HeadStep9 \/ PairNext9 \/ NextMove9 \/ Return9

Spec9 == Init9 /\ [][Next9]_vars

(***************************************************************************)
(* day9: the motion of the rope as the puzzle states it.                   *)
(***************************************************************************)
\* The unit steps of a sequence of moves, one direction per step.
RECURSIVE UnitSteps(_)
UnitSteps(moves) ==
    IF moves = <<>> THEN <<>>
    ELSE [i \in 1..Max2(Head(moves).length, 0) |-> Head(moves).direction]
         \o UnitSteps(Tail(moves))

Offset9(d) ==
    IF d = "L" THEN <<-1, 0>> ELSE IF d = "R" THEN <<1, 0>>
    ELSE IF d = "U" THEN <<0, 1>> ELSE <<0, -1>>

\* A knot follows its predecessor when it is more than one cell away from
\* it on some axis, by the sign of the offset on each axis.
Follows(knot, pred) ==
    LET dx == pred[1] - knot[1]
        dy == pred[2] - knot[2]
        far == dx > 1 \/ dx < -1 \/ dy > 1 \/ dy < -1
    IN IF far THEN <<knot[1] + Signum(dx), knot[2] + Signum(dy)>> ELSE knot

\* The knots after a unit step: the head moves, then knot i follows the
\* new position of knot i - 1; moved holds the new positions found so far.
RECURSIVE Drag(_, _)
Drag(rope, moved) ==
    IF Len(moved) = Len(rope) THEN moved
    ELSE Drag(rope, Append(moved, Follows(rope[Len(moved) + 1], moved[Len(moved)])))

RopeAfter(rope, d) ==
    Drag(rope, <<<<rope[1][1] + Offset9(d)[1], rope[1][2] + Offset9(d)[2]>>>>)

\* The rope after the first k unit steps.
RECURSIVE RopeAt(_, _, _)
RopeAt(n, steps, k) ==
    IF k = 0 THEN [i \in 1..n |-> <<0, 0>>]
    ELSE RopeAfter(RopeAt(n, steps, k - 1), steps[k])

\* The positions of the last knot, the start included, along the ropes.
RECURSIVE TailTrack(_, _, _)
TailTrack(rope, steps, k) ==
    {rope[Len(rope)]}
    \cup IF k > Len(steps) THEN {} ELSE TailTrack(RopeAfter(rope, steps[k]), steps, k + 1)

TailPositions(n, moves) == TailTrack([i \in 1..n |-> <<0, 0>>], UnitSteps(moves), 1)

\* The unit steps made so far.
RECURSIVE StepsBefore(_, _)
StepsBefore(in, m) == IF m <= 1 THEN 0 ELSE StepsOf(in, m - 1) + StepsBefore(in, m - 1)

StepsDone9 ==
    StepsBefore(input9, Min2(move9, Len(input9) + 1)) + StepsOf(input9, move9) - todo9

\* C13: move_rope never panics; between two unit steps the iterator has
\* yielded the N - 1 consecutive pairs and the knots are where the head's
\* step followed by the knots' steps, from head to tail, puts them; the
\* answer is the number of positions of the last knot, the start included;
\* N is 2 for level1 and 10 for level2, with 13, 1 and 36 on the examples.
C13_RopeMotion ==
    level9 \in {1, 2} =>
        /\ pc9 # "panic"
        /\ Len(nodes9) = (IF level9 = 1 THEN 2 ELSE 10)
        /\ (pc9 = "moves" /\ StepsDone9 > 0) => pairs9 = Len(nodes9) - 1
        /\ pc9 = "moves" =>
            nodes9 = RopeAt(Len(nodes9), UnitSteps(input9), StepsDone9)
        /\ pc9 = "done" =>
            /\ result9 = Cardinality(TailPositions(Len(nodes9), input9))
            /\ (input9 = SampleMoves9 /\ level9 = 1) => result9 = 13
            /\ (input9 = SampleMoves9 /\ level9 = 2) => result9 = 1
            /\ (input9 = LargeMoves9 /\ level9 = 2) => result9 = 36

\* level2 has returned 36 on the larger example, all nine pairs visited in
\* its last step.
C13_Witness ==
    /\ level9 = 2 /\ pc9 = "done"
    /\ input9 = LargeMoves9
    /\ result9 = 36
    /\ pairs9 = 9

\* level1 has returned 13 on the example.
C13_WitnessLevel1 ==
    /\ level9 = 1 /\ pc9 = "done"
    /\ input9 = SampleMoves9
    /\ result9 = 13

(***************************************************************************)
(* day8: tree houses, level1.  A row is a sequence of heights, the digits  *)
(* of a line; an entry of the table is [h, visible].                       *)
(***************************************************************************)
\* parse_with_default(input, &false)
ParseWithDefault(in) ==
    [r \in 1..Len(in) |-> [c \in 1..Len(in[r]) |-> [h |-> in[r][c], visible |-> FALSE]]]

\* transpose: as many columns as the first row has entries; zip leaves out
\* the entries of a longer row and ends a shorter row early.
RECURSIVE ColumnOf(_, _, _)
ColumnOf(table, c, r) ==
    IF r > Len(table) THEN <<>>
    ELSE (IF c <= Len(table[r]) THEN <<table[r][c]>> ELSE <<>>) \o ColumnOf(table, c, r + 1)

Transpose(table) ==
    IF table = <<>> THEN <<>>
    ELSE [c \in 1..Len(table[1]) |-> ColumnOf(table, c, 1)]

\* The comparison of line 43 with >= for >.
Taller_OrEqual(t, max_so_far) == t >= max_so_far

\* Line 43.
Taller(t, max_so_far) == t > max_so_far

\* set_visible from entry i on; acc is <<>> for None and <<max>> for Some.
RECURSIVE SetVisibleFrom(_, _, _)
SetVisibleFrom(row, i, acc) ==
    IF i > Len(row) THEN row
    ELSE IF acc = <<>> \/ Taller(row[i].h, acc[1])
    THEN SetVisibleFrom([row EXCEPT ![i].visible = TRUE], i + 1, <<row[i].h>>)
    ELSE SetVisibleFrom(row, i + 1, acc)

SetVisible(row) == SetVisibleFrom(row, 1, <<>>)

Rev(s) == [i \in 1..Len(s) |-> s[Len(s) + 1 - i]]

\* The closure of set_row_visible: the row forwards, then backwards.
SetRowVisible(row) == Rev(SetVisible(Rev(SetVisible(row))))

RECURSIVE CountVisible(_, _)
CountVisible(table, r) ==
    IF r > Len(table) THEN 0
    ELSE Cardinality({c \in 1..Len(table[r]) : table[r][c].visible})
         + CountVisible(table, r + 1)

SampleTrees8 ==
    <<<<3, 0, 3, 7, 3>>, <<2, 5, 5, 1, 2>>, <<6, 5, 3, 3, 2>>,
      <<3, 3, 5, 4, 9>>, <<3, 5, 3, 9, 0>>>>

MaxHeight8 == 1

Heights8 == 0..MaxHeight8

\* All grids of rows x cols trees.
Grids8(rows, cols) == [1..rows -> [1..cols -> Heights8]]

\* The example, the grids of up to three rows and columns, the grids of one
\* or two rows of four, and two inputs whose lines differ in length.
Inputs8 ==
    {<<>>, SampleTrees8}
    \cup UNION {Grids8(r, c) : r \in 1..3, c \in 1..3}
    \cup Grids8(1, 4) \cup Grids8(2, 4)
    \cup {<<<<1>>, <<0, 1>>>>, <<<<0, 1, 0>>, <<1>>, <<1, 0, 1>>>>}

(***************************************************************************)
(* day8 as a state machine: parse, set_row_visible row by row, transpose,  *)
(* set_row_visible again, count.                                           *)
(***************************************************************************)
Init8 ==
    /\ Idle12 /\ Idle11 /\ Idle14 /\ Idle15 /\ Idle3 /\ Idle13 /\ Idle9 /\ IdleM /\ IdleE
    /\ input8 \in Inputs8
    /\ table8 = <<>>
    /\ row8 = 1
    /\ pass8 = 0
    /\ pc8 = "parse"
    /\ result8 = 0

\* level1, line 96.
Parse8 ==
    /\ pc8 = "parse"
    /\ table8' = ParseWithDefault(input8)
    /\ row8' = 1
    /\ pass8' = 1
    /\ pc8' = "rows"
    /\ UNCHANGED <<input8, result8>>
    /\ Others8

\* set_row_visible: the next row of the table.
Row8 ==
    /\ pc8 = "rows"
    /\ row8 <= Len(table8)
    /\ table8' = [table8 EXCEPT ![row8] = SetRowVisible(table8[row8])]
    /\ row8' = row8 + 1
    /\ UNCHANGED <<input8, pass8, pc8, result8>>
    /\ Others8

\* level1, line 98.
Transpose8 ==
    /\ pc8 = "rows"
    /\ row8 > Len(table8)
    /\ pass8 = 1
    /\ table8' = Transpose(table8)
    /\ row8' = 1
    /\ pass8' = 2
    /\ UNCHANGED <<input8, pc8, result8>>
    /\ Others8

\* level1, lines 100-103.
Count8 ==
    /\ pc8 = "rows"
    /\ row8 > Len(table8)
    /\ pass8 = 2
    /\ result8' = CountVisible(table8, 1)
    /\ pc8' = "done"
    /\ UNCHANGED <<input8, table8, row8, pass8>>
    /\ Others8

Next8 == Parse8 \/ Row8 \/ Transpose8 \/ Count8

Spec8 == Init8 /\ [][Next8]_vars

(***************************************************************************)
(* day8: visibility stated on the grid.                                    *)
(***************************************************************************)
Rectangular8(in) == \A r \in 1..Len(in) : Len(in[r]) = Len(in[1]) /\ Len(in[r]) > 0

\* The trees between (r, c) and each of the four edges.
Between8(in, r, c) ==
    {{<<r, k>> : k \in 1..(c - 1)}, {<<r, k>> : k \in (c + 1)..Len(in[r])},
     {<<k, c>> : k \in 1..(r - 1)}, {<<k, c>> : k \in (r + 1)..Len(in)}}

VisibleFromOutside8(in, r, c) ==
    \E way \in Between8(in, r, c) : \A t \in way : in[t[1]][t[2]] < in[r][c]

VisibleTrees8(in) ==
    {t \in UNION {{<<r, c>> : c \in 1..Len(in[r])} : r \in 1..Len(in)} :
        VisibleFromOutside8(in, t[1], t[2])}

\* C14: on a grid, level1 returns the number of trees that are taller than
\* every tree between them and one of the four edges, each counted once;
\* 21 on the example.
C14_VisibleFromOutside ==
    (pc8 = "done" /\ Rectangular8(input8)) =>
        /\ result8 = Cardinality(VisibleTrees8(input8))
        /\ input8 = SampleTrees8 => result8 = 21

\* level1 has returned 21 on the example, whose 16 edge trees count and
\* whose tree in the middle is hidden.
C14_Witness ==
    /\ pc8 = "done"
    /\ input8 = SampleTrees8
    /\ result8 = 21
    /\ ~VisibleFromOutside8(input8, 3, 3)

\* level1 on a grid with a hidden tree inside and the same height beside it.
C14_WitnessHidden ==
    /\ pc8 = "done" /\ Rectangular8(input8)
    /\ Len(input8) = 3 /\ Len(input8[1]) = 3
    /\ ~VisibleFromOutside8(input8, 2, 2)
    /\ input8[2][2] = input8[2][1]
    /\ result8 = 8

(***************************************************************************)
(* The entry points examples/day02 and examples/day4.  parse_args and      *)
(* submit are called, not defined, by main: parse_args appears as the      *)
(* value it returns, submit as an entry of the log.  The fixed input text  *)
(* is not part of the model, so what a level function returns on it, or    *)
(* whether it panics, is drawn with the initial state.                     *)
(***************************************************************************)
ExamplesM == {"day02", "day4"}

\* Result<(Level, Option<_>)>: Err, or a level and whether to submit.
ArgsM ==
    {[ok |-> FALSE, level |-> "One", should_submit |-> FALSE]}
    \cup {[ok |-> TRUE, level |-> l, should_submit |-> s] : l \in {"One", "Two"}, s \in BOOLEAN}

\* std::env::var("SESSION"): Err when the variable is not set.
EnvM == {[set |-> FALSE, session |-> ""], [set |-> TRUE, session |-> "cookie"]}

MaxAnswerM == 1

OutcomesM == {[panic |-> TRUE, n |-> 0]} \cup {[panic |-> FALSE, n |-> n] : n \in 0..MaxAnswerM}

\* An entry of the log: what was done, by or for which level, with which
\* number.
Event(kind, level, n) == [kind |-> kind, level |-> level, n |-> n]

\* Lines 7-10 with the arms of the match exchanged.
Selected_Swapped(level) == IF level = "One" THEN "Two" ELSE "One"

\* Lines 7-10: the level function of the level.
Selected(level) == level

InitM ==
    /\ Idle12 /\ Idle11 /\ Idle14 /\ Idle15 /\ Idle3 /\ Idle13 /\ Idle9 /\ Idle8 /\ IdleE
    /\ dayM \in ExamplesM
    /\ argsM \in ArgsM
    /\ envM \in EnvM
    /\ answersM \in [{"One", "Two"} -> OutcomesM]
    /\ dataM = 0
    /\ logM = <<>>
    /\ pcM = "args"

\* Line 5: parse_args().unwrap()
ParseArgsM ==
    /\ pcM = "args"
    /\ pcM' = IF argsM.ok THEN "level" ELSE "panic"
    /\ UNCHANGED <<dayM, argsM, envM, answersM, dataM, logM>>
    /\ OthersM

\* Lines 7-10: the call of the level function.
LevelM ==
    /\ pcM = "level"
    /\ LET f == Selected(argsM.level)
       IN /\ logM' = Append(logM, Event("call", f, 0))
          /\ IF answersM[f].panic
             THEN pcM' = "panic" /\ dataM' = dataM
             ELSE pcM' = "print" /\ dataM' = answersM[f].n
    /\ UNCHANGED <<dayM, argsM, envM, answersM>>
    /\ OthersM

\* Line 11.
PrintM ==
    /\ pcM = "print"
    /\ logM' = Append(logM, Event("print", argsM.level, dataM))
    /\ pcM' = "flag"
    /\ UNCHANGED <<dayM, argsM, envM, answersM, dataM>>
    /\ OthersM

\* Line 12, should_submit is None: main returns.
ReturnM ==
    /\ pcM = "flag"
    /\ ~argsM.should_submit
    /\ pcM' = "exit"
    /\ UNCHANGED <<dayM, argsM, envM, answersM, dataM, logM>>
    /\ OthersM

\* Lines 12-16: std::env::var("SESSION") ... unwrap()
SessionM ==
    /\ pcM = "flag"
    /\ argsM.should_submit
    /\ logM' = Append(logM, Event("env", argsM.level, 0))
    /\ pcM' = IF envM.set THEN "submit" ELSE "panic"
    /\ UNCHANGED <<dayM, argsM, envM, answersM, dataM>>
    /\ OthersM

\* Line 17.
SubmitM ==
    /\ pcM = "submit"
    /\ logM' = Append(logM, Event("submit", argsM.level, dataM))
    /\ pcM' = "exit"
    /\ UNCHANGED <<dayM, argsM, envM, answersM, dataM>>
    /\ OthersM

NextM == ParseArgsM \/ LevelM \/ PrintM \/ ReturnM \/ SessionM \/ SubmitM

SpecM == InitM /\ [][NextM]_vars

\* The positions of the log with an entry of a kind.
LoggedM(kind) == {i \in 1..Len(logM) : logM[i].kind = kind}

\* C15: the only level function called is the one of the level argument;
\* the answer is printed before SESSION is read or anything is submitted;
\* SESSION is read and a submission made only with the submit flag; with
\* the flag and without SESSION the process aborts after the print and
\* without a submission.
C15_EntryPoint ==
    pcM # "idle" =>
        /\ \A i \in LoggedM("call") : i = 1 /\ logM[i].level = argsM.level
        /\ \A i \in LoggedM("print") :
            /\ logM[i].n = answersM[argsM.level].n
            /\ i = 2
        /\ \A i \in LoggedM("env") \cup LoggedM("submit") :
            /\ argsM.should_submit
            /\ \E j \in LoggedM("print") : j < i
        /\ \A i \in LoggedM("submit") : envM.set /\ logM[i].n = dataM
        /\ (pcM \in {"exit", "panic"} /\ argsM.ok /\ ~answersM[argsM.level].panic) =>
            /\ LoggedM("print") # {}
            /\ (argsM.should_submit /\ ~envM.set) =>
                pcM = "panic" /\ LoggedM("env") # {} /\ LoggedM("submit") = {}
            /\ (argsM.should_submit /\ envM.set) => LoggedM("submit") # {}
            /\ ~argsM.should_submit => pcM = "exit"

\* With the flag and without SESSION, level two has been called and
\* printed, SESSION read, and the process has aborted.
C15_Witness ==
    /\ pcM = "panic"
    /\ argsM.ok /\ argsM.level = "Two" /\ argsM.should_submit /\ ~envM.set
    /\ Len(logM) = 3
    /\ logM[1] = Event("call", "Two", 0)
    /\ logM[2].kind = "print"
    /\ logM[3].kind = "env"

\* With the flag and SESSION the answer has been submitted after the print.
C15_WitnessSubmit ==
    /\ pcM = "exit"
    /\ argsM.should_submit /\ envM.set
    /\ Len(logM) = 4
    /\ logM[2].kind = "print" /\ logM[4].kind = "submit"
    /\ logM[2].n = logM[4].n

(***************************************************************************)
(* DisjointIntervals under any sequence of extend calls: every call hands  *)
(* over intervals with start <= end, each going through one iteration of   *)
(* the loop of extend.                                                     *)
(***************************************************************************)
MaxPointE == 7

IntervalsE == {Interval(s, e) : s \in 0..MaxPointE, e \in 0..MaxPointE}

ProperE == {i \in IntervalsE : i.start <= i.end}

PointsOf(i) == i.start..i.end

\* DisjointIntervals::default
InitE ==
    /\ Idle12 /\ Idle11 /\ Idle14 /\ Idle15 /\ Idle3 /\ Idle13 /\ Idle9 /\ Idle8 /\ IdleM
    /\ storedE = <<>>
    /\ coveredE = {}
    /\ beforeE = <<>>
    /\ lastE = <<>>
    /\ pcE = "ready"

\* extend: one interval of the iterator.
ExtendE ==
    /\ pcE = "ready"
    /\ \E i \in ProperE :
        LET r == ExtendOne(storedE, i)
        IN /\ storedE' = r.v
           /\ coveredE' = coveredE \cup PointsOf(i)
           /\ lastE' = <<i>>
           /\ pcE' = IF r.panic THEN "panic" ELSE "ready"
    /\ beforeE' = storedE
    /\ OthersE

NextE == ExtendE

SpecE == InitE /\ [][NextE]_vars

\* C16: after any extend calls with intervals of start <= end, from the
\* empty collection, the stored intervals are sorted by start, each starts
\* at least 2 after the end of the one before, and their union is the union
\* of the intervals inserted; extend has not panicked.
C16_DisjointSortedUnion ==
    pcE # "idle" =>
        /\ pcE = "ready"
        /\ \A k \in 1..Len(storedE) : storedE[k].start <= storedE[k].end
        /\ \A k \in 1..(Len(storedE) - 1) :
            /\ storedE[k].start < storedE[k + 1].start
            /\ storedE[k + 1].start >= storedE[k].end + 2
        /\ UNION {PointsOf(storedE[k]) : k \in 1..Len(storedE)} = coveredE

\* The interval [2,2] has joined its two adjacent neighbours [0,1] and
\* [3,4], and [6,7] has stayed apart.
C16_Witness ==
    /\ pcE = "ready"
    /\ beforeE = <<Interval(0, 1), Interval(3, 4), Interval(6, 7)>>
    /\ lastE = <<Interval(2, 2)>>
    /\ storedE = <<Interval(0, 4), Interval(6, 7)>>

\* An interval has swallowed two stored intervals and joined a third that
\* overlaps its end.
C16_WitnessSwallow ==
    /\ pcE = "ready"
    /\ beforeE = <<Interval(1, 1), Interval(3, 3), Interval(5, 6)>>
    /\ lastE = <<Interval(0, 5)>>
    /\ storedE = <<Interval(0, 6)>>

====
